---- MODULE Spec2Model ----
(***************************************************************************)
(* Model of the land-mapping web application: the multi-selection state    *)
(* machine of MapView (handleClick, handleRemoveParcel, the drag-reorder   *)
(* of MultiParcelPanel, the clear handlers, search-result select), the     *)
(* saved-project operations of useProjects as MapView drives them, the     *)
(* filter stage (STEP 2) over the preprocessed parcel set, the loading of  *)
(* parcels and electoral divisions with the preprocessing pass (STEP 1),   *)
(* the keyboard navigation of SearchBar and the acre-based size slider.    *)
(***************************************************************************)
EXTENDS Integers, Sequences, FiniteSets, TLC

VARIABLES
    selectedParcels,     \* MapView state: ordered list of SelectedParcel
    activeProjectId,     \* MapView state: id of the bound project or NullId
    activeProjectName,   \* MapView state: name of the bound project or NullName
    projects,            \* useProjects state: list of SavedProject
    now,                 \* the value Date.now() returns
    nextId,              \* number of ids generateId() has handed out
    lastOp,              \* history: the selection or project handler that ran last, with its arguments
    preprocessedParcels, \* STEP 1 result: annotated parcel features, in input order
    nemOnly,             \* filter setting (boundaryOnly)
    ownersOnly,          \* filter setting
    visibleDivisions,    \* filter setting: DivisionName -> BOOLEAN
    sizeRange,           \* filter setting: [min, max]
    parcelsWithIds,      \* STEP 2 result: the displayed features
    inputsVersion,       \* identity of the preprocessing inputs (parcelsData, divisionsData, ownerLookup)
    preprocessRuns,      \* number of times the preprocessing pass has run
    renderedProjects,    \* useProjects: the projects of the last render, which its callbacks close over
    pendingOps,          \* useProjects: state updates made since the last render
    hookOp,              \* history: the useProjects operation called last, with its arguments
    storage,             \* localStorage: the value under STORAGE_KEY
    isLoaded,            \* useProjects state: the load effect has run
    hookPc,              \* useProjects: "mount", "loading" or "ready"
    errorLog,            \* the console.error messages written so far
    hookSteps,           \* number of useProjects operations and clock ticks so far
    projectsShape,       \* useProjects state: "array", or what JSON.parse returned instead ("object", "null")
    parcelsData,         \* MapView prop: the parcel feature collection, or null until it is loaded
    communityData,       \* the communities /data/nem_communities.json returned, in file order
    divisionsData,       \* MapView state: the communities grouped by division, or null
    passState,           \* the STEP 1 memo: "null" (data missing), "done" or "aborted" (it threw)
    results,             \* SearchBar state: the results of the last search, in search order
    selectedIndex,       \* SearchBar state: the keyboard index, -1 when nothing is highlighted
    isOpen               \* SearchBar state: the dropdown is open

selVars == <<selectedParcels, activeProjectId, activeProjectName>>
hookVars == <<pendingOps, hookOp, isLoaded, hookPc, errorLog, hookSteps, projectsShape>>
projVars == <<projects, now, nextId, renderedProjects, storage, pendingOps, hookOp, isLoaded, hookPc,
              errorLog, hookSteps, projectsShape>>
memoVars == <<inputsVersion, preprocessRuns>>
dataVars == <<parcelsData, communityData, divisionsData, passState>>
searchVars == <<results, selectedIndex, isOpen>>
filterVars == <<preprocessedParcels, nemOnly, ownersOnly, visibleDivisions, sizeRange, parcelsWithIds,
                inputsVersion, preprocessRuns, parcelsData, communityData, divisionsData, passState,
                results, selectedIndex, isOpen>>
vars == <<selectedParcels, activeProjectId, activeProjectName, projects, now, nextId, lastOp,
          preprocessedParcels, nemOnly, ownersOnly, visibleDivisions, sizeRange, parcelsWithIds,
          inputsVersion, preprocessRuns, renderedProjects, pendingOps, hookOp, storage, isLoaded,
          hookPc, errorLog, hookSteps, parcelsData, communityData, divisionsData, passState,
          results, selectedIndex, isOpen, projectsShape>>

\* ---------------------------------------------------------------- bounds
NumParcels == 3      \* OBJECTIDs of the live parcel dataset are 1..NumParcels
MaxProjects == 1     \* saves stop when this many projects are stored
MaxFeatures == 2     \* the preprocessed parcel set has at most this many features
MaxSize == 2         \* SIZE_SQMT and the size range bounds are at most this
MaxHookSteps == 3    \* useProjects operations and clock ticks per behaviour
MaxRuns == 4         \* the preprocessing pass is counted up to this
MaxAcreInput == 3    \* the size slider and its text boxes are given 0..MaxAcreInput acres

NullName == "null"   \* activeProjectName === null
NullId == 0          \* activeProjectId === null
NoFeature == 0       \* queryRenderedFeatures returned no feature

LiveParcels == 1..NumParcels
\* an OBJECTID stored by an earlier session that the live dataset no longer has
StaleId == NumParcels + 1

\* ------------------------------------------------- selection state machine
\* a SelectedParcel; properties are identified by their OBJECTID
SelectedParcel(oid, order) == [OBJECTID |-> oid, selectionOrder |-> order]

\* prev.findIndex(p => p.properties.OBJECTID === oid): 0-based, -1 when absent
FindIndex(prev, oid) ==
    IF \E i \in 1..Len(prev) : prev[i].OBJECTID = oid
    THEN (CHOOSE i \in 1..Len(prev) :
            /\ prev[i].OBJECTID = oid
            /\ \A j \in 1..(i - 1) : prev[j].OBJECTID # oid) - 1
    ELSE -1

\* prev.filter((_, i) => i !== existingIndex), existingIndex 0-based
FilterOutIndex(prev, existingIndex) ==
    [i \in 1..(Len(prev) - 1) |-> IF i <= existingIndex THEN prev[i] ELSE prev[i + 1]]

\* prev.filter(p => p.properties.OBJECTID !== objectId)
FilterOutId(prev, objectId) ==
    SelectSeq(prev, LAMBDA p : p.OBJECTID # objectId)

RenumberSkipFirst(s) ==
    [i \in 1..Len(s) |-> [s[i] EXCEPT !.selectionOrder = IF i = 1 THEN s[i].selectionOrder ELSE i]]

\* newSelection.map((p, i) => ({ ...p, selectionOrder: i + 1 }))
Renumber(s) ==
    [i \in 1..Len(s) |-> [s[i] EXCEPT !.selectionOrder = i]]

AppendStaleOrder(prev, oid) ==
    Append(prev, SelectedParcel(oid, Len(prev)))

\* [...prev, { properties, center, selectionOrder: prev.length + 1 }]
AppendSelected(prev, oid) ==
    Append(prev, SelectedParcel(oid, Len(prev) + 1))

SingleSelectNoToggle(prev, oid) ==
    <<SelectedParcel(oid, 1)>>

\* single-select branch of the setSelectedParcels updater
SingleSelect(prev, oid) ==
    IF FindIndex(prev, oid) >= 0 /\ Len(prev) = 1
    THEN <<>>
    ELSE <<SelectedParcel(oid, 1)>>

MultiSelectAlwaysAppend(prev, oid) ==
    AppendSelected(prev, oid)

\* multi-select branch of the setSelectedParcels updater
MultiSelect(prev, oid) ==
    IF FindIndex(prev, oid) >= 0
    THEN Renumber(FilterOutIndex(prev, FindIndex(prev, oid)))
    ELSE AppendSelected(prev, oid)

\* the setSelectedParcels updater of handleClick
ClickUpdater(prev, oid, isMultiSelectKey) ==
    IF isMultiSelectKey THEN MultiSelect(prev, oid) ELSE SingleSelect(prev, oid)

EmptyClickKeepsOnMulti(prev, isMultiSelectKey) ==
    IF isMultiSelectKey THEN prev ELSE <<>>

\* features.length === 0: setSelectedParcels([])
EmptyClick(prev, isMultiSelectKey) == <<>>

\* a history record: the handler, its id argument (the OBJECTID, the project
\* id, the dragged index or the binding it found), the modifier key, and the
\* length of the selection it found (the drop index for a drop)
Op(name, id, multi, arg) == [op |-> name, id |-> id, multi |-> multi, arg |-> arg]

\* handleClick: feature is the OBJECTID under the pointer or NoFeature
HandleClick(feature, isMultiSelectKey) ==
    /\ selectedParcels' =
         IF feature = NoFeature
         THEN EmptyClick(selectedParcels, isMultiSelectKey)
         ELSE ClickUpdater(selectedParcels, feature, isMultiSelectKey)
    /\ lastOp' = Op("click", feature, isMultiSelectKey, Len(selectedParcels))
    /\ UNCHANGED <<activeProjectId, activeProjectName>>
    /\ UNCHANGED projVars
    /\ UNCHANGED filterVars

\* handleClosePanel (onClose of the single-parcel DetailsPanel)
HandleClosePanel ==
    /\ selectedParcels' = <<>>
    /\ lastOp' = Op("closePanel", activeProjectId, FALSE, Len(selectedParcels))
    /\ UNCHANGED <<activeProjectId, activeProjectName>>
    /\ UNCHANGED projVars
    /\ UNCHANGED filterVars

RemoveUpdaterNoRenumber(prev, objectId) == FilterOutId(prev, objectId)

\* the setSelectedParcels updater of handleRemoveParcel
RemoveUpdater(prev, objectId) == Renumber(FilterOutId(prev, objectId))

\* the parcels MultiParcelPanel renders a ParcelCard (with its remove button) for
IdsOfCards == {selectedParcels[i].OBJECTID : i \in 1..Len(selectedParcels)}

\* handleRemoveParcel
HandleRemoveParcel(objectId) ==
    /\ selectedParcels' = RemoveUpdater(selectedParcels, objectId)
    /\ lastOp' = Op("remove", objectId, FALSE, Len(selectedParcels))
    /\ UNCHANGED <<activeProjectId, activeProjectName>>
    /\ UNCHANGED projVars
    /\ UNCHANGED filterVars

\* reordered.splice(dragIndex, 1): the list without the 0-based index
SpliceOut(s, dragIndex) ==
    [i \in 1..(Len(s) - 1) |-> IF i <= dragIndex THEN s[i] ELSE s[i + 1]]

\* reordered.splice(dropIndex, 0, item): item inserted at the 0-based index
SpliceIn(s, dropIndex, item) ==
    [i \in 1..(Len(s) + 1) |->
        IF i <= dropIndex THEN s[i]
        ELSE IF i = dropIndex + 1 THEN item
        ELSE s[i - 1]]

DropSwap(list, dragIndex, dropIndex) ==
    Renumber([i \in 1..Len(list) |->
        IF i = dragIndex + 1 THEN list[dropIndex + 1]
        ELSE IF i = dropIndex + 1 THEN list[dragIndex + 1]
        ELSE list[i]])

\* the list handleDrop hands to onReorderParcels
DropReorder(list, dragIndex, dropIndex) ==
    Renumber(SpliceIn(SpliceOut(list, dragIndex), dropIndex, list[dragIndex + 1]))

\* handleDragStart on card dragIndex, handleDrop on card dropIndex, and the
\* handleReorderParcels it calls (setSelectedParcels(reorderedParcels))
HandleDrop(dragIndex, dropIndex) ==
    /\ dragIndex \in 0..(Len(selectedParcels) - 1)
    /\ dropIndex \in 0..(Len(selectedParcels) - 1)
    /\ selectedParcels' =
         IF dragIndex = dropIndex
         THEN selectedParcels
         ELSE DropReorder(selectedParcels, dragIndex, dropIndex)
    /\ lastOp' = Op("drop", dragIndex, FALSE, dropIndex)
    /\ UNCHANGED <<activeProjectId, activeProjectName>>
    /\ UNCHANGED projVars
    /\ UNCHANGED filterVars

ClearKeepsName == activeProjectName

\* what handleCloseAndClearActive stores in activeProjectName
ClearedName == NullName

\* handleCloseAndClearActive (onClearAll of MultiParcelPanel)
HandleCloseAndClearActive ==
    /\ selectedParcels' = <<>>
    /\ activeProjectId' = NullId
    /\ activeProjectName' = ClearedName
    /\ lastOp' = Op("clear", activeProjectId, FALSE, Len(selectedParcels))
    /\ UNCHANGED projVars
    /\ UNCHANGED filterVars

\* handleSearchResult, case "parcel"
HandleSearchResult(oid) ==
    /\ selectedParcels' = <<SelectedParcel(oid, 1)>>
    /\ lastOp' = Op("search", oid, FALSE, Len(selectedParcels))
    /\ UNCHANGED <<activeProjectId, activeProjectName>>
    /\ UNCHANGED projVars
    /\ UNCHANGED filterVars

\* ------------------------------------------------------- saved projects
\* the names a caller may pass; blank ones included
NameInputs == {"", " B "}

\* String.prototype.trim on the names of the model
Trim(name) ==
    CASE name = " B " -> "B"
      [] name = " " -> ""
      [] OTHER -> name

\* `Project ${projects.length + 1}`
DefaultName(n) ==
    CASE n = 1 -> "Project 1"
      [] n = 2 -> "Project 2"
      [] n = 3 -> "Project 3"
      [] n = 4 -> "Project 4"
      [] OTHER -> "Project N"

\* a project an earlier session stored; one of its parcels has since left
\* the live dataset
StaleProject ==
    [id |-> 1, name |-> "Old", parcelIds |-> <<1, StaleId, 2>>, createdAt |-> 0, updatedAt |-> 0]

\* what the load effect of useProjects finds in localStorage
StoredCollections == {<<>>, <<StaleProject>>}

\* a second project of an earlier session
SecondProject ==
    [id |-> 2, name |-> "Project 2", parcelIds |-> <<2, 1>>, createdAt |-> 0, updatedAt |-> 0]

\* the collections an earlier session may have stored
HookCollections == {<<>>, <<StaleProject>>, <<StaleProject, SecondProject>>}

\* the parcelIds a caller passes to saveProject and updateProject
IdLists == {<<1, 2>>, <<2, 1, 3>>}

\* selectedParcels.map(p => p.properties.OBJECTID)
ParcelIdsOf(sel) == [i \in 1..Len(sel) |-> sel[i].OBJECTID]

\* the value under STORAGE_KEY: absent (getItem returns null), a string
\* JSON.parse rejects, or the JSON text of a collection
NoItem == [tag |-> "null", val |-> <<>>]
Corrupt == [tag |-> "corrupt", val |-> <<>>]
Json(collection) == [tag |-> "json", val |-> collection]

LoadFailed == "Failed to load saved projects:"
SaveFailed == "Failed to save projects:"

\* a history record of useProjects: the operation, the id it was given or
\* generated, and the name and parcelIds it was given
HookOp(op, id, name, parcelIds) == [op |-> op, id |-> id, name |-> name, parcelIds |-> parcelIds]

\* the default name of saveProject: projects.length is the one of the render
\* that created the callback (useCallback deps [projects.length])
DefaultNameOfRender(n) == DefaultName(n + 1)

\* the record saveProject builds
NewProject(name, parcelIds) ==
    [id |-> nextId + 1,
     name |-> IF Trim(name) # "" THEN Trim(name) ELSE DefaultNameOfRender(Len(renderedProjects)),
     parcelIds |-> parcelIds,
     createdAt |-> now,
     updatedAt |-> now]

FindByPosition(collection, id) ==
    IF id \in 1..Len(collection) THEN <<collection[id]>> ELSE <<>>

\* collection.find(proj => proj.id === id); <<>> stands for undefined
FindProject(collection, id) ==
    LET found == SelectSeq(collection, LAMBDA proj : proj.id = id)
    IN IF found = <<>> THEN <<>> ELSE <<found[1]>>

\* getProject: the find runs over the projects of the render that created
\* the callback (useCallback deps [projects])
GetProject(id) == FindProject(renderedProjects, id)

\* the setProjects updater of updateProject
UpdateUpdater(prev, id, parcelIds, t) ==
    [i \in 1..Len(prev) |->
        IF prev[i].id = id
        THEN [prev[i] EXCEPT !.parcelIds = parcelIds, !.updatedAt = t]
        ELSE prev[i]]

RenameUpdaterRaw(prev, id, newName, t) ==
    [i \in 1..Len(prev) |->
        IF prev[i].id = id
        THEN [prev[i] EXCEPT !.name = IF Trim(newName) # "" THEN newName ELSE prev[i].name,
                             !.updatedAt = t]
        ELSE prev[i]]

\* the setProjects updater of renameProject
RenameUpdater(prev, id, newName, t) ==
    [i \in 1..Len(prev) |->
        IF prev[i].id = id
        THEN [prev[i] EXCEPT !.name = IF Trim(newName) # "" THEN Trim(newName) ELSE prev[i].name,
                             !.updatedAt = t]
        ELSE prev[i]]

DeleteUpdaterDropsFirst(prev, id) ==
    IF \E i \in 1..Len(prev) : prev[i].id = id THEN Tail(prev) ELSE prev

\* the setProjects updater of deleteProject
DeleteUpdater(prev, id) ==
    SelectSeq(prev, LAMBDA proj : proj.id # id)

\* handleSaveProject, with the saveProject it calls, the render and the
\* persist effect that follow; the save button is part of MultiParcelPanel,
\* rendered when selectedParcels.length >= 2
HandleSaveProject(name) ==
    /\ Len(selectedParcels) >= 2
    /\ Len(projects) < MaxProjects
    /\ LET newProject == NewProject(name, ParcelIdsOf(selectedParcels))
       IN /\ projects' = Append(projects, newProject)
          /\ activeProjectId' = newProject.id
          /\ activeProjectName' = newProject.name
    /\ nextId' = nextId + 1
    /\ renderedProjects' = projects'
    /\ storage' = Json(projects')
    /\ lastOp' = Op("save", 0, FALSE, 0)
    /\ UNCHANGED <<selectedParcels, now>>
    /\ UNCHANGED hookVars
    /\ UNCHANGED filterVars

\* handleUpdateProject, with the updateProject it calls, the render and the
\* persist effect that follow; the update button is part of MultiParcelPanel,
\* rendered when selectedParcels.length >= 2
HandleUpdateProject ==
    /\ Len(selectedParcels) >= 2
    /\ projects' =
         IF activeProjectId = NullId
         THEN projects
         ELSE UpdateUpdater(projects, activeProjectId, ParcelIdsOf(selectedParcels), now)
    /\ renderedProjects' = projects'
    /\ storage' = Json(projects')
    /\ lastOp' = Op("update", 0, FALSE, 0)
    /\ UNCHANGED <<selectedParcels, activeProjectId, activeProjectName, now, nextId>>
    /\ UNCHANGED hookVars
    /\ UNCHANGED filterVars

\* a setProjects updater ([...prev, p], prev.map, prev.filter) applied to the
\* state: on a value that is not an array it throws a TypeError, nothing
\* catches it, and the component is gone
UpdaterResult(updated) == IF projectsShape = "array" THEN updated ELSE projects
PendingAfter == IF projectsShape = "array" THEN pendingOps + 1 ELSE pendingOps
PcAfter == IF projectsShape = "array" THEN hookPc ELSE "crashed"

\* saveProject: the record is built from the callback's closure, the append
\* is a functional update of the state
SaveProject(name, parcelIds) ==
    /\ hookPc = "ready"
    /\ hookSteps < MaxHookSteps
    /\ projects' = UpdaterResult(Append(projects, NewProject(name, parcelIds)))
    /\ nextId' = nextId + 1
    /\ pendingOps' = PendingAfter
    /\ hookPc' = PcAfter
    /\ hookOp' = HookOp("save", nextId + 1, name, parcelIds)
    /\ hookSteps' = hookSteps + 1
    /\ UNCHANGED <<now, renderedProjects, storage, isLoaded, errorLog, projectsShape>>
    /\ UNCHANGED selVars
    /\ UNCHANGED filterVars
    /\ UNCHANGED lastOp

\* updateProject
UpdateProject(id, parcelIds) ==
    /\ hookPc = "ready"
    /\ hookSteps < MaxHookSteps
    /\ projects' = UpdaterResult(UpdateUpdater(projects, id, parcelIds, now))
    /\ pendingOps' = PendingAfter
    /\ hookPc' = PcAfter
    /\ hookOp' = HookOp("update", id, "", parcelIds)
    /\ hookSteps' = hookSteps + 1
    /\ UNCHANGED <<now, nextId, renderedProjects, storage, isLoaded, errorLog, projectsShape>>
    /\ UNCHANGED selVars
    /\ UNCHANGED filterVars
    /\ UNCHANGED lastOp

\* renameProject
RenameProject(id, newName) ==
    /\ hookPc = "ready"
    /\ hookSteps < MaxHookSteps
    /\ projects' = UpdaterResult(RenameUpdater(projects, id, newName, now))
    /\ pendingOps' = PendingAfter
    /\ hookPc' = PcAfter
    /\ hookOp' = HookOp("rename", id, newName, <<>>)
    /\ hookSteps' = hookSteps + 1
    /\ UNCHANGED <<now, nextId, renderedProjects, storage, isLoaded, errorLog, projectsShape>>
    /\ UNCHANGED selVars
    /\ UNCHANGED filterVars
    /\ UNCHANGED lastOp

\* deleteProject
DeleteProject(id) ==
    /\ hookPc = "ready"
    /\ hookSteps < MaxHookSteps
    /\ projects' = UpdaterResult(DeleteUpdater(projects, id))
    /\ pendingOps' = PendingAfter
    /\ hookPc' = PcAfter
    /\ hookOp' = HookOp("delete", id, "", <<>>)
    /\ hookSteps' = hookSteps + 1
    /\ UNCHANGED <<now, nextId, renderedProjects, storage, isLoaded, errorLog, projectsShape>>
    /\ UNCHANGED selVars
    /\ UNCHANGED filterVars
    /\ UNCHANGED lastOp

\* the clock Date.now() reads advances by a millisecond
Tick ==
    /\ hookPc = "ready"
    /\ hookSteps < MaxHookSteps
    /\ now' = now + 1
    /\ hookSteps' = hookSteps + 1
    /\ UNCHANGED <<projects, nextId, renderedProjects, storage, pendingOps, hookOp, isLoaded, hookPc, errorLog,
                   projectsShape>>
    /\ UNCHANGED selVars
    /\ UNCHANGED filterVars
    /\ UNCHANGED lastOp

PersistGateOpen(loaded) == TRUE

\* if (isLoaded) of the persist effect
PersistGate(loaded) == loaded

NeverWritten(collection, loaded, writeOk, stored) == stored

\* the persist effect on localStorage: setItem(STORAGE_KEY, JSON.stringify(projects))
\* when isLoaded; a setItem that throws leaves the stored value
PersistedStorage(collection, loaded, writeOk, stored) ==
    IF PersistGate(loaded) /\ writeOk THEN Json(collection) ELSE stored

\* the persist effect on the console: the catch logs
PersistLog(loaded, writeOk) ==
    IF PersistGate(loaded) /\ ~writeOk THEN {SaveFailed} ELSE {}

LoadedFlagOnSuccess(failed) == ~failed

\* setIsLoaded(true) after the try/catch of the load effect
LoadedFlag(failed) == TRUE

\* what setProjects(JSON.parse(stored)) leaves in the state; nothing is set
\* when getItem returned null
ParsedShape(stored) ==
    CASE stored.tag = "object" -> "object"
      [] stored.tag = "jsonNull" -> "null"
      [] OTHER -> "array"

\* the first render's effects: the load effect (readOk: getItem does not
\* throw), then the persist effect of the same render, which sees the
\* isLoaded and projects of that render (writeOk: setItem does not throw)
LoadEffect(readOk, writeOk) ==
    /\ hookPc = "mount"
    /\ LET failed == ~readOk \/ storage.tag = "corrupt"
       IN /\ projects' = IF ~failed /\ storage.tag = "json" THEN storage.val ELSE projects
          /\ projectsShape' = IF ~failed THEN ParsedShape(storage) ELSE projectsShape
          /\ errorLog' = errorLog \cup (IF failed THEN {LoadFailed} ELSE {})
                                  \cup PersistLog(isLoaded, writeOk)
          /\ isLoaded' = LoadedFlag(failed)
          /\ hookOp' = HookOp("load", 0, IF readOk THEN "read" ELSE "threw", <<>>)
    /\ nextId' = Len(projects')
    /\ storage' = PersistedStorage(renderedProjects, isLoaded, writeOk, storage)
    /\ hookPc' = "loading"
    /\ pendingOps' = 1
    /\ UNCHANGED <<now, renderedProjects, hookSteps>>
    /\ UNCHANGED selVars
    /\ UNCHANGED filterVars
    /\ UNCHANGED lastOp

\* the render React runs after state updates, followed by the persist effect
\* (the projects array or isLoaded has changed); writeOk: setItem does not throw.
\* With projects null the render throws at projects.length; with another
\* value that is not an array the effect writes back the text it was parsed from
Render(writeOk) ==
    /\ pendingOps > 0
    /\ renderedProjects' = projects
    /\ pendingOps' = 0
    /\ hookPc' = IF projectsShape = "null" THEN "crashed" ELSE "ready"
    /\ storage' =
         IF projectsShape = "array"
         THEN PersistedStorage(projects, isLoaded, writeOk, storage)
         ELSE storage
    /\ errorLog' =
         errorLog \cup (IF projectsShape = "null" THEN {} ELSE PersistLog(isLoaded, writeOk))
    /\ UNCHANGED <<projects, now, nextId, hookOp, isLoaded, hookSteps, projectsShape>>
    /\ UNCHANGED selVars
    /\ UNCHANGED filterVars
    /\ UNCHANGED lastOp

RestoreReversed(parcelIds) ==
    LET kept == SelectSeq(parcelIds, LAMBDA oid : oid \in LiveParcels)
    IN [k \in 1..Len(kept) |-> SelectedParcel(kept[Len(kept) + 1 - k], k)]

\* the restoredParcels loop of handleLoadProject: ids the parcelLookup does
\* not resolve are skipped, the others keep selectionOrder i + 1
RestoreParcels(parcelIds) ==
    LET kept == SelectSeq([i \in 1..Len(parcelIds) |-> i],
                          LAMBDA i : parcelIds[i] \in LiveParcels)
    IN [k \in 1..Len(kept) |-> SelectedParcel(parcelIds[kept[k]], kept[k])]

\* handleLoadProject
HandleLoadProject(projectId) ==
    /\ IF GetProject(projectId) = <<>>
       THEN UNCHANGED <<selectedParcels, activeProjectId, activeProjectName>>
       ELSE LET project == GetProject(projectId)[1]
            IN /\ selectedParcels' = RestoreParcels(project.parcelIds)
               /\ activeProjectId' = projectId
               /\ activeProjectName' = project.name
    /\ lastOp' = Op("load", projectId, FALSE, Len(selectedParcels))
    /\ UNCHANGED projVars
    /\ UNCHANGED filterVars

\* the names typed into the rename box of a project item
EditNames == {"", " B ", "C"}

RenameInputRaw(editName) == editName

\* the name handleSaveRename hands to onRename: editName.trim()
RenameInput(editName) == Trim(editName)

\* handleRenameProject, with the renameProject it calls, the render and the
\* persist effect that follow
HandleRenameProject(id, name) ==
    /\ projects' = RenameUpdater(projects, id, name, now)
    /\ renderedProjects' = projects'
    /\ storage' = Json(projects')
    /\ activeProjectName' = IF id = activeProjectId THEN name ELSE activeProjectName
    /\ lastOp' = Op("rename", id, FALSE, 0)
    /\ UNCHANGED <<selectedParcels, activeProjectId, now, nextId>>
    /\ UNCHANGED hookVars
    /\ UNCHANGED filterVars

\* handleSaveRename of the project item of id (one item per saved project):
\* onRename is called when the trimmed name is not blank and differs from
\* project.name
HandleSaveRename(id, editName) ==
    /\ GetProject(id) # <<>>
    /\ Trim(editName) # ""
    /\ Trim(editName) # GetProject(id)[1].name
    /\ HandleRenameProject(id, RenameInput(editName))

\* handleDeleteProject from the delete button of the project item of id, with
\* the deleteProject it calls, the render and the persist effect that follow
HandleDeleteProject(id) ==
    /\ GetProject(id) # <<>>
    /\ hookSteps < MaxHookSteps
    /\ projects' = DeleteUpdater(projects, id)
    /\ renderedProjects' = projects'
    /\ storage' = Json(projects')
    /\ activeProjectId' = IF id = activeProjectId THEN NullId ELSE activeProjectId
    /\ activeProjectName' = IF id = activeProjectId THEN NullName ELSE activeProjectName
    /\ hookSteps' = hookSteps + 1
    /\ lastOp' = Op("delete", id, FALSE, 0)
    /\ UNCHANGED <<selectedParcels, now, nextId, pendingOps, hookOp, isLoaded, hookPc, errorLog,
                   projectsShape>>
    /\ UNCHANGED filterVars

\* ------------------------------------------------------------ filter stage
DivisionNames == {"CRAIGHEAD", "CHRISTIANA", "WALDERSTON"}
NoDivision == "null"           \* _division === null

\* the values SIZE_SQMT takes in a parsed feature collection
Undefined == [tag |-> "undefined", val |-> 0]
NaN == [tag |-> "NaN", val |-> 0]
Num(n) == [tag |-> "num", val |-> n]
SizeValues == {Undefined, NaN} \cup {Num(n) : n \in 0..MaxSize}

\* sizeRange.max starts as Infinity: above every area
Infinity == MaxSize + 1
\* the bounds a size range is given
SizeMins == 0..MaxSize
SizeMaxes == 1..Infinity

\* !size
IsFalsy(size) == size.tag # "num" \/ size.val = 0
\* isNaN(size): Number(undefined) is NaN
IsNaN(size) == size.tag \in {"undefined", "NaN"}

\* f => f.properties._isInNem
NemPasses(f) == f._isInNem
\* f => f.properties._hasOwner
OwnerPasses(f) == f._hasOwner

SizePassesFailClosed(f, range) ==
    /\ ~(IsFalsy(f.SIZE_SQMT) \/ IsNaN(f.SIZE_SQMT))
    /\ f.SIZE_SQMT.val >= range.min /\ f.SIZE_SQMT.val <= range.max

\* the size range filter callback
SizePasses(f, range) ==
    IF IsFalsy(f.SIZE_SQMT) \/ IsNaN(f.SIZE_SQMT)
    THEN TRUE
    ELSE f.SIZE_SQMT.val >= range.min /\ f.SIZE_SQMT.val <= range.max

\* the visible divisions filter callback
DivisionPasses(f, visible) ==
    IF f._division = NoDivision THEN TRUE ELSE visible[f._division]

ApplyFiltersOwnersReplaceNem(pre, nem, owners, range, visible) ==
    LET f1 == IF nem THEN SelectSeq(pre, NemPasses) ELSE pre
        f2 == IF owners THEN SelectSeq(pre, OwnerPasses) ELSE f1
        f3 == SelectSeq(f2, LAMBDA f : SizePasses(f, range))
    IN SelectSeq(f3, LAMBDA f : DivisionPasses(f, visible))

\* STEP 2: the chain of filters over preprocessedParcels
ApplyFilters(pre, nem, owners, range, visible) ==
    LET f1 == IF nem THEN SelectSeq(pre, NemPasses) ELSE pre
        f2 == IF owners THEN SelectSeq(f1, OwnerPasses) ELSE f1
        f3 == SelectSeq(f2, LAMBDA f : SizePasses(f, range))
    IN SelectSeq(f3, LAMBDA f : DivisionPasses(f, visible))

\* onToggleNemOnly: setNemOnly(!nemOnly), then the STEP 2 memo
ToggleNemOnly ==
    /\ nemOnly' = ~nemOnly
    /\ parcelsWithIds' = ApplyFilters(preprocessedParcels, nemOnly', ownersOnly, sizeRange, visibleDivisions)
    /\ UNCHANGED lastOp
    /\ UNCHANGED <<preprocessedParcels, ownersOnly, visibleDivisions, sizeRange>>
    /\ UNCHANGED memoVars
    /\ UNCHANGED dataVars
    /\ UNCHANGED searchVars
    /\ UNCHANGED selVars
    /\ UNCHANGED projVars

\* onToggleOwnersOnly: setOwnersOnly(!ownersOnly), then the STEP 2 memo
ToggleOwnersOnly ==
    /\ ownersOnly' = ~ownersOnly
    /\ parcelsWithIds' = ApplyFilters(preprocessedParcels, nemOnly, ownersOnly', sizeRange, visibleDivisions)
    /\ UNCHANGED lastOp
    /\ UNCHANGED <<preprocessedParcels, nemOnly, visibleDivisions, sizeRange>>
    /\ UNCHANGED memoVars
    /\ UNCHANGED dataVars
    /\ UNCHANGED searchVars
    /\ UNCHANGED selVars
    /\ UNCHANGED projVars

\* onToggleDivision: setVisibleDivisions(prev => ({...prev, [division]: !prev[division]}))
ToggleDivision(division) ==
    /\ visibleDivisions' = [visibleDivisions EXCEPT ![division] = ~visibleDivisions[division]]
    /\ parcelsWithIds' = ApplyFilters(preprocessedParcels, nemOnly, ownersOnly, sizeRange, visibleDivisions')
    /\ UNCHANGED lastOp
    /\ UNCHANGED <<preprocessedParcels, nemOnly, ownersOnly, sizeRange>>
    /\ UNCHANGED memoVars
    /\ UNCHANGED dataVars
    /\ UNCHANGED searchVars
    /\ UNCHANGED selVars
    /\ UNCHANGED projVars

\* onSizeRangeChange={setSizeRange} with the range the min slider or min text
\* box sends, { min: ..., max: value.max }, then the STEP 2 memo
SetSizeRangeMin(min) ==
    /\ min # sizeRange.min
    /\ sizeRange' = [min |-> min, max |-> sizeRange.max]
    /\ parcelsWithIds' = ApplyFilters(preprocessedParcels, nemOnly, ownersOnly, sizeRange', visibleDivisions)
    /\ UNCHANGED lastOp
    /\ UNCHANGED <<preprocessedParcels, nemOnly, ownersOnly, visibleDivisions>>
    /\ UNCHANGED memoVars
    /\ UNCHANGED dataVars
    /\ UNCHANGED searchVars
    /\ UNCHANGED selVars
    /\ UNCHANGED projVars

\* onSizeRangeChange={setSizeRange} with the range the max slider or max text
\* box sends, { min: value.min, max: ... }, then the STEP 2 memo
SetSizeRangeMax(max) ==
    /\ max # sizeRange.max
    /\ sizeRange' = [min |-> sizeRange.min, max |-> max]
    /\ parcelsWithIds' = ApplyFilters(preprocessedParcels, nemOnly, ownersOnly, sizeRange', visibleDivisions)
    /\ UNCHANGED lastOp
    /\ UNCHANGED <<preprocessedParcels, nemOnly, ownersOnly, visibleDivisions>>
    /\ UNCHANGED memoVars
    /\ UNCHANGED dataVars
    /\ UNCHANGED searchVars
    /\ UNCHANGED selVars
    /\ UNCHANGED projVars

\* the annotations of a feature that passes every filter
BaseAnnotation ==
    [SIZE_SQMT |-> Num(1), _isInNem |-> TRUE, _hasOwner |-> TRUE, _division |-> "CRAIGHEAD"]

AllAnnotations ==
    [SIZE_SQMT : SizeValues, _isInNem : BOOLEAN, _hasOwner : BOOLEAN,
     _division : DivisionNames \cup {NoDivision}]

DiffCount(a) ==
    Cardinality({k \in {"SIZE_SQMT", "_isInNem", "_hasOwner", "_division"} : a[k] # BaseAnnotation[k]})

\* the annotations the model draws the features from: BaseAnnotation and its
\* variants in one attribute
Annotations == {a \in AllAnnotations : DiffCount(a) <= 1}

\* a preprocessed feature: OBJECTID, SIZE_SQMT and the three annotations
Feature(oid, a) ==
    [OBJECTID |-> oid, SIZE_SQMT |-> a.SIZE_SQMT, _isInNem |-> a._isInNem,
     _hasOwner |-> a._hasOwner, _division |-> a._division]

\* the preprocessed parcel sets: feature i has OBJECTID i
PreprocessedSets ==
    UNION {{[i \in 1..n |-> Feature(i, as[i])] : as \in [1..n -> Annotations]} : n \in 0..MaxFeatures}

\* the preprocessing loop's counters: nemCount++ and withOwnersCount++ per
\* feature whose flag is set
RECURSIVE CountFlag(_, _)
CountFlag(pre, flag) ==
    IF pre = <<>> THEN 0
    ELSE (IF Head(pre)[flag] THEN 1 ELSE 0) + CountFlag(Tail(pre), flag)

ParcelCountsDisplayedIsTotal(pre, displayed) ==
    [total |-> Len(pre),
     nem |-> CountFlag(pre, "_isInNem"),
     withOwners |-> CountFlag(pre, "_hasOwner"),
     displayed |-> Len(pre)]

\* parcelCounts of the STEP 2 memo
ParcelCounts(pre, displayed) ==
    [total |-> Len(pre),
     nem |-> CountFlag(pre, "_isInNem"),
     withOwners |-> CountFlag(pre, "_hasOwner"),
     displayed |-> Len(displayed)]

\* the annotated sets the preprocessing pass produces for the data inputs of
\* the memo specifications
MemoSets ==
    {<<>>,
     <<Feature(1, BaseAnnotation)>>,
     <<Feature(1, BaseAnnotation), Feature(2, [BaseAnnotation EXCEPT !._isInNem = FALSE])>>,
     <<Feature(1, [BaseAnnotation EXCEPT !._hasOwner = FALSE]),
       Feature(2, [BaseAnnotation EXCEPT !._division = "WALDERSTON"])>>}

\* a dependency of the STEP 1 memo (divisionsData after its fetch, the
\* ownerLookup prop) gets a new identity: STEP 1 runs again, then STEP 2
InputsChanged(annotated) ==
    /\ preprocessRuns < MaxRuns
    /\ inputsVersion' = 1 - inputsVersion
    /\ preprocessRuns' = preprocessRuns + 1
    /\ preprocessedParcels' = annotated
    /\ parcelsWithIds' = ApplyFilters(preprocessedParcels', nemOnly, ownersOnly, sizeRange, visibleDivisions)
    /\ UNCHANGED <<nemOnly, ownersOnly, visibleDivisions, sizeRange>>
    /\ UNCHANGED dataVars
    /\ UNCHANGED searchVars
    /\ UNCHANGED lastOp
    /\ UNCHANGED selVars
    /\ UNCHANGED projVars

\* the filters of the combined memo: boundary, owners, visible divisions
ApplyFiltersCombined(flagged, nem, owners, visible) ==
    LET f1 == IF nem THEN SelectSeq(flagged, NemPasses) ELSE flagged
        f2 == IF owners THEN SelectSeq(f1, OwnerPasses) ELSE f1
    IN SelectSeq(f2, LAMBDA f : DivisionPasses(f, visible))

\* the combined memo: its dependency array holds the data inputs and the
\* filter settings, and every evaluation maps all parcels to parcelsWithFlags
\* (centroid, boundary test, division lookup) before it filters them
CombinedMemo(flagged, nem, owners, visible) ==
    /\ preprocessRuns < MaxRuns
    /\ preprocessRuns' = preprocessRuns + 1
    /\ preprocessedParcels' = flagged
    /\ parcelsWithIds' = ApplyFiltersCombined(flagged, nem, owners, visible)

\* onToggleNemOnly under the combined memo
CombinedToggleNemOnly ==
    /\ nemOnly' = ~nemOnly
    /\ CombinedMemo(preprocessedParcels, nemOnly', ownersOnly, visibleDivisions)
    /\ UNCHANGED <<ownersOnly, visibleDivisions, sizeRange, inputsVersion>>
    /\ UNCHANGED dataVars
    /\ UNCHANGED searchVars
    /\ UNCHANGED lastOp
    /\ UNCHANGED selVars
    /\ UNCHANGED projVars

\* onToggleOwnersOnly under the combined memo
CombinedToggleOwnersOnly ==
    /\ ownersOnly' = ~ownersOnly
    /\ CombinedMemo(preprocessedParcels, nemOnly, ownersOnly', visibleDivisions)
    /\ UNCHANGED <<nemOnly, visibleDivisions, sizeRange, inputsVersion>>
    /\ UNCHANGED dataVars
    /\ UNCHANGED searchVars
    /\ UNCHANGED lastOp
    /\ UNCHANGED selVars
    /\ UNCHANGED projVars

\* onToggleDivision under the combined memo
CombinedToggleDivision(division) ==
    /\ visibleDivisions' = [visibleDivisions EXCEPT ![division] = ~visibleDivisions[division]]
    /\ CombinedMemo(preprocessedParcels, nemOnly, ownersOnly, visibleDivisions')
    /\ UNCHANGED <<nemOnly, ownersOnly, sizeRange, inputsVersion>>
    /\ UNCHANGED dataVars
    /\ UNCHANGED searchVars
    /\ UNCHANGED lastOp
    /\ UNCHANGED selVars
    /\ UNCHANGED projVars

\* a data dependency of the combined memo (ownerLookup, findDivisionForPoint)
\* gets a new identity
CombinedInputsChanged(flagged) ==
    /\ inputsVersion' = 1 - inputsVersion
    /\ CombinedMemo(flagged, nemOnly, ownersOnly, visibleDivisions)
    /\ UNCHANGED <<nemOnly, ownersOnly, visibleDivisions, sizeRange>>
    /\ UNCHANGED dataVars
    /\ UNCHANGED searchVars
    /\ UNCHANGED lastOp
    /\ UNCHANGED selVars
    /\ UNCHANGED projVars

\* ------------------------------------------------- divisions and data loading
\* community names are sequences of characters
CRAIGHEAD_KEYWORDS ==
    <<<<"C", "R", "A", "I", "G", "H", "E", "A", "D">>,
      <<"C", "O", "N", "T", "R", "I", "V", "A", "N", "C", "E">>,
      <<"L", "Y", "N", "D", "H", "U", "R", "S", "T">>,
      <<"P", "I", "K", "E">>,
      <<"H", "A", "R", "R", "Y", " ", "W", "A", "T", "C", "H">>,
      <<"H", "A", "R", "R", "Y", " ", "W", "A", "T", "E", "R">>,
      <<"A", "U", "G", "H", "T", "E", "M", "B", "E", "D", "D", "I", "E">>,
      <<"A", "U", "C", "H", "T", "E", "M", "B", "E", "D", "D", "I", "E">>,
      <<"G", "O", "O", "D", " ", "I", "N", "T", "E", "N", "T">>,
      <<"R", "O", "B", "I", "N", "S", " ", "H", "A", "L", "L">>,
      <<"R", "O", "B", "B", "I", "N", "S", " ", "H", "A", "L", "L">>,
      <<"G", "R", "O", "V", "E", " ", "P", "L", "A", "C", "E">>>>

CHRISTIANA_KEYWORDS ==
    <<<<"H", "I", "B", "E", "R", "N", "I", "A">>,
      <<"C", "H", "R", "I", "S", "T", "I", "A", "N", "A">>,
      <<"C", "O", "L", "E", "Y", "V", "I", "L", "L", "E">>,
      <<"S", "I", "L", "E", "N", "T", " ", "H", "I", "L", "L">>,
      <<"S", "P", "R", "I", "N", "G", " ", "G", "R", "O", "U", "N", "D">>,
      <<"S", "P", "A", "L", "D", "I", "N", "G">>>>

WALDERSTON_KEYWORDS ==
    <<<<"B", "E", "T", "H", "A", "N", "Y">>,
      <<"C", "O", "B", "B", "L", "A">>,
      <<"C", "H", "U", "D", "L", "E", "I", "G", "H">>,
      <<"D", "E", "V", "O", "N">>,
      <<"C", "O", "M", "F", "O", "R", "T", " ", "H", "A", "L", "L">>,
      <<"T", "O", "P", " ", "H", "I", "L", "L">>,
      <<"W", "A", "L", "D", "E", "R", "S", "T", "O", "N">>,
      <<"L", "I", "T", "C", "H", "F", "I", "E", "L", "D">>,
      <<"K", "E", "N", "D", "A", "L">>,
      <<"W", "I", "L", "L", "I", "A", "M", "S", "F", "I", "E", "L", "D">>,
      <<"C", "H", "A", "N", "T", "I", "L", "L", "Y">>,
      <<"B", "O", "M", "B", "A">>,
      <<"B", "O", "M", "B", "A", "Y">>>>

\* String.prototype.toUpperCase, character by character
UpperOf(c) ==
    CASE c = "a" -> "A"
      [] c = "b" -> "B"
      [] c = "c" -> "C"
      [] c = "d" -> "D"
      [] c = "e" -> "E"
      [] c = "f" -> "F"
      [] c = "g" -> "G"
      [] c = "h" -> "H"
      [] c = "i" -> "I"
      [] c = "j" -> "J"
      [] c = "k" -> "K"
      [] c = "l" -> "L"
      [] c = "m" -> "M"
      [] c = "n" -> "N"
      [] c = "o" -> "O"
      [] c = "p" -> "P"
      [] c = "q" -> "Q"
      [] c = "r" -> "R"
      [] c = "s" -> "S"
      [] c = "t" -> "T"
      [] c = "u" -> "U"
      [] c = "v" -> "V"
      [] c = "w" -> "W"
      [] c = "x" -> "X"
      [] c = "y" -> "Y"
      [] c = "z" -> "Z"
      [] OTHER -> c

ToUpperCase(name) == [i \in 1..Len(name) |-> UpperOf(name[i])]

\* upperName.includes(keyword)
Includes(upperName, keyword) ==
    \E k \in 0..(Len(upperName) - Len(keyword)) :
        \A j \in 1..Len(keyword) : upperName[k + j] = keyword[j]

\* KEYWORDS.some(keyword => upperName.includes(keyword))
SomeKeyword(keywords, upperName) ==
    \E n \in 1..Len(keywords) : Includes(upperName, keywords[n])

\* the divisions array of the fallback
FallbackDivisions == <<"CHRISTIANA", "CRAIGHEAD", "WALDERSTON">>

GetDivisionCraigheadFirst(communityName, index) ==
    LET upperName == ToUpperCase(communityName)
    IN IF SomeKeyword(CRAIGHEAD_KEYWORDS, upperName) THEN "CRAIGHEAD"
       ELSE IF SomeKeyword(CHRISTIANA_KEYWORDS, upperName) THEN "CHRISTIANA"
       ELSE IF SomeKeyword(WALDERSTON_KEYWORDS, upperName) THEN "WALDERSTON"
       ELSE FallbackDivisions[(index % 3) + 1]

\* getDivisionForCommunity; index is 0-based
GetDivisionForCommunity(communityName, index) ==
    LET upperName == ToUpperCase(communityName)
    IN IF SomeKeyword(CHRISTIANA_KEYWORDS, upperName) THEN "CHRISTIANA"
       ELSE IF SomeKeyword(CRAIGHEAD_KEYWORDS, upperName) THEN "CRAIGHEAD"
       ELSE IF SomeKeyword(WALDERSTON_KEYWORDS, upperName) THEN "WALDERSTON"
       ELSE FallbackDivisions[(index % 3) + 1]

\* a community of the file: its name (<<>> when COMM_NAME_ is missing), the
\* points its polygon contains, and whether booleanPointInPolygon throws on it
Community(name, cells, throws) == [COMM_NAME_ |-> name, cells |-> cells, throws |-> throws]

\* processCommunitiesWithDivisions: features.map((feature, index) => ...);
\* index is kept with the feature to tell the communities of a file apart
ProcessCommunitiesWithDivisions(communities) ==
    [i \in 1..Len(communities) |->
        [index |-> i - 1,
         COMM_NAME_ |-> communities[i].COMM_NAME_,
         cells |-> communities[i].cells,
         throws |-> communities[i].throws,
         ELECTORAL_DIVISION |-> GetDivisionForCommunity(communities[i].COMM_NAME_, i - 1)]]

\* groupByDivision: each feature is pushed to the list of its division
GroupByDivision(features) ==
    [d \in DivisionNames |-> SelectSeq(features, LAMBDA f : f.ELECTORAL_DIVISION = d)]

\* parcelsData === null, divisionsData === null
NoData == [loaded |-> FALSE, features |-> <<>>]
NoDivisions == [loaded |-> FALSE, groups |-> [d \in DivisionNames |-> <<>>]]

\* the order findDivisionForPoint scans the groups in
ScanOrder == <<"CRAIGHEAD", "CHRISTIANA", "WALDERSTON">>

\* the inner loop of findDivisionForPoint: a polygon whose test throws is
\* skipped by the catch
RECURSIVE HitsPolygon(_, _)
HitsPolygon(features, point) ==
    IF features = <<>> THEN FALSE
    ELSE IF ~Head(features).throws /\ point \in Head(features).cells THEN TRUE
    ELSE HitsPolygon(Tail(features), point)

FindDivisionLastGroup(divisions, point) ==
    IF ~divisions.loaded THEN NoDivision
    ELSE IF HitsPolygon(divisions.groups[ScanOrder[3]], point) THEN ScanOrder[3]
    ELSE IF HitsPolygon(divisions.groups[ScanOrder[2]], point) THEN ScanOrder[2]
    ELSE IF HitsPolygon(divisions.groups[ScanOrder[1]], point) THEN ScanOrder[1]
    ELSE NoDivision

\* findDivisionForPoint
FindDivisionForPoint(divisions, point) ==
    IF ~divisions.loaded THEN NoDivision
    ELSE IF HitsPolygon(divisions.groups[ScanOrder[1]], point) THEN ScanOrder[1]
    ELSE IF HitsPolygon(divisions.groups[ScanOrder[2]], point) THEN ScanOrder[2]
    ELSE IF HitsPolygon(divisions.groups[ScanOrder[3]], point) THEN ScanOrder[3]
    ELSE NoDivision

\* the points of the map, and those inside manchesterNorthEasternBoundary
Points == 1..3
BoundaryPoints == {1, 2}

\* the LV numbers ownerLookup has; LV_NUMBER 0 stands for a missing one
OwnerLookup == {1}

\* a parcel of the dataset: geometry is "ok" or "malformed" (centroid throws
\* on it), at is the point its centroid falls on
Parcel(oid, size, lv, geometry, at) ==
    [OBJECTID |-> oid, SIZE_SQMT |-> size, LV_NUMBER |-> lv, geometry |-> geometry, at |-> at]

\* the callback of parcelsData.features.map in STEP 1, for a parcel whose
\* centroid is computed
Annotate(parcel, divisions) ==
    [OBJECTID |-> parcel.OBJECTID,
     SIZE_SQMT |-> parcel.SIZE_SQMT,
     _isInNem |-> parcel.at \in BoundaryPoints,
     _hasOwner |-> IF parcel.LV_NUMBER # 0 THEN parcel.LV_NUMBER \in OwnerLookup ELSE FALSE,
     _division |-> FindDivisionForPoint(divisions, parcel.at)]

\* centroid(feature) throws for some parcel: nothing in STEP 1 catches it
PreprocessThrows(features) ==
    \E i \in 1..Len(features) : features[i].geometry # "ok"

\* the STEP 1 memo
Preprocess(parcels, divisions) ==
    IF ~parcels.loaded \/ ~divisions.loaded
    THEN [state |-> "null", parcels |-> <<>>]
    ELSE IF PreprocessThrows(parcels.features)
    THEN [state |-> "aborted", parcels |-> <<>>]
    ELSE [state |-> "done",
          parcels |-> [i \in 1..Len(parcels.features) |-> Annotate(parcels.features[i], divisions)]]

\* sizes are in hundredths of a square meter
SQMT_PER_ACRE == 404686
MAX_ACRES == 2500
MAX_SQMT == MAX_ACRES * SQMT_PER_ACRE

\* Math.floor and Math.ceil to whole square meters
Floor(x) == (x \div 100) * 100
Ceil(x) == ((x + 99) \div 100) * 100

\* the sizes the sizeBounds loop takes into account
ValidSizes(features) ==
    {features[i].SIZE_SQMT.val :
        i \in {j \in 1..Len(features) :
                  features[j].SIZE_SQMT.tag = "num" /\ features[j].SIZE_SQMT.val > 0}}

\* the sizeBounds memo
SizeBounds(parcels) ==
    IF ~parcels.loaded THEN [min |-> 0, max |-> MAX_SQMT]
    ELSE LET sizes == ValidSizes(parcels.features)
             least == CHOOSE x \in sizes : \A y \in sizes : x <= y
             most == CHOOSE x \in sizes : \A y \in sizes : x >= y
             top == IF sizes = {} THEN MAX_SQMT ELSE Ceil(most)
         IN [min |-> IF sizes = {} THEN 0 ELSE Floor(least),
             max |-> IF top <= MAX_SQMT THEN top ELSE MAX_SQMT]

\* the effect on [sizeBounds]: setSizeRange unless the bounds are { 0, 100000 }
InitialSizeRange(bounds, current) ==
    IF bounds.min # 0 \/ bounds.max # 100000 * 100 THEN bounds ELSE current

DivisionsFailed == "Failed to load electoral divisions:"

\* the render after parcelsData or divisionsData changed: STEP 1 runs when
\* both are there, then STEP 2; an exception of STEP 1 ends the render
RunMemos(parcels, divisions, range) ==
    LET step1 == Preprocess(parcels, divisions)
    IN /\ passState' = step1.state
       /\ preprocessedParcels' = step1.parcels
       /\ parcelsWithIds' = ApplyFilters(step1.parcels, nemOnly, ownersOnly, range, visibleDivisions)
       /\ preprocessRuns' = IF step1.state = "null" THEN preprocessRuns ELSE preprocessRuns + 1
       /\ inputsVersion' = 1 - inputsVersion

\* the parcelsData prop becomes the loaded feature collection
ParcelsLoaded(features) ==
    /\ ~parcelsData.loaded
    /\ parcelsData' = [loaded |-> TRUE, features |-> features]
    /\ sizeRange' = InitialSizeRange(SizeBounds(parcelsData'), sizeRange)
    /\ RunMemos(parcelsData', divisionsData, sizeRange')
    /\ UNCHANGED <<communityData, divisionsData, nemOnly, ownersOnly, visibleDivisions>>
    /\ UNCHANGED searchVars
    /\ UNCHANGED lastOp
    /\ UNCHANGED selVars
    /\ UNCHANGED projVars

\* loadElectoralDivisions() resolves: setDivisionsData(groupByDivision(data))
DivisionsLoaded(communities) ==
    /\ ~divisionsData.loaded
    /\ DivisionsFailed \notin errorLog
    /\ communityData' = communities
    /\ divisionsData' =
         [loaded |-> TRUE,
          groups |-> GroupByDivision(ProcessCommunitiesWithDivisions(communities))]
    /\ RunMemos(parcelsData, divisionsData', sizeRange)
    /\ UNCHANGED <<parcelsData, sizeRange, nemOnly, ownersOnly, visibleDivisions>>
    /\ UNCHANGED searchVars
    /\ UNCHANGED lastOp
    /\ UNCHANGED selVars
    /\ UNCHANGED projVars

\* loadElectoralDivisions() rejects: the catch logs, divisionsData stays null
DivisionsLoadFails ==
    /\ ~divisionsData.loaded
    /\ DivisionsFailed \notin errorLog
    /\ errorLog' = errorLog \cup {DivisionsFailed}
    /\ UNCHANGED <<projects, now, nextId, renderedProjects, storage, pendingOps, hookOp, isLoaded,
                   hookPc, hookSteps, projectsShape>>
    /\ UNCHANGED filterVars
    /\ UNCHANGED lastOp
    /\ UNCHANGED selVars

\* -------------------------------------------------------------- search bar
\* the debounced queries of the model; "" stands for a query of fewer than
\* two characters
SearchQueries == {"", "ch", "st", "hi"}

MAX_PER_CATEGORY == 5

\* a SearchResult: type, id, and data (the OBJECTID of a parcel, the position
\* of a division in the divisions array)
SearchResult(type, id, data) == [type |-> type, id |-> id, data |-> data]

\* an item of a searched dataset: the result it makes, and the queries one of
\* its searchable fields includes (value.toLowerCase().includes(q))
SearchItem(type, id, data, hits) == [result |-> SearchResult(type, id, data), hits |-> hits]

\* the divisions of performSearch: "christiana" includes "ch", "walderston"
\* includes "st"
SearchedDivisions ==
    <<SearchItem("division", "division-CRAIGHEAD", 1, {}),
      SearchItem("division", "division-CHRISTIANA", 2, {"ch"}),
      SearchItem("division", "division-WALDERSTON", 3, {"st"})>>

\* starlinkData, parcelsData and addressesData as the search reads them
SearchedStarlink == <<SearchItem("starlink", "starlink-Hilltop Station", 1, {"st", "hi"})>>
SearchedParcels ==
    <<SearchItem("parcel", "parcel-1", 1, {"st"}), SearchItem("parcel", "parcel-2", 2, {"ch", "st"})>>
SearchedAddresses == <<SearchItem("address", "address-LV1", 1, {"hi", "st"})>>

\* one loop of performSearch: the first matches of the dataset, in its
\* order; capped is FALSE for the divisions, which have no counter
CategoryResults(items, q, capped) ==
    LET matched == SelectSeq(items, LAMBDA item : q \in item.hits)
        n == IF capped /\ Len(matched) > MAX_PER_CATEGORY THEN MAX_PER_CATEGORY ELSE Len(matched)
    IN [i \in 1..n |-> matched[i].result]

\* performSearch: divisions, Starlink sites, parcels, addresses
PerformSearch(q) ==
    IF q = "" THEN <<>>
    ELSE CategoryResults(SearchedDivisions, q, FALSE) \o CategoryResults(SearchedStarlink, q, TRUE)
         \o CategoryResults(SearchedParcels, q, TRUE) \o CategoryResults(SearchedAddresses, q, TRUE)

\* the order the dropdown renders the categories in
CategoryOrder == <<"division", "parcel", "address", "starlink">>

\* the buttons of the dropdown from top to bottom: categoryOrder.map over
\* groupedResults; flatIndex counts them from 0
RenderedResults(list) ==
    SelectSeq(list, LAMBDA r : r.type = CategoryOrder[1])
    \o SelectSeq(list, LAMBDA r : r.type = CategoryOrder[2])
    \o SelectSeq(list, LAMBDA r : r.type = CategoryOrder[3])
    \o SelectSeq(list, LAMBDA r : r.type = CategoryOrder[4])

\* the effect on [debouncedQuery, performSearch]
SearchEffect(debouncedQuery) ==
    /\ results' = PerformSearch(debouncedQuery)
    /\ selectedIndex' = -1
    /\ isOpen' = (Len(results') > 0 \/ debouncedQuery # "")
    /\ UNCHANGED <<preprocessedParcels, nemOnly, ownersOnly, visibleDivisions, sizeRange, parcelsWithIds>>
    /\ UNCHANGED memoVars
    /\ UNCHANGED dataVars
    /\ UNCHANGED lastOp
    /\ UNCHANGED selVars
    /\ UNCHANGED projVars

\* handleKeyDown, case "ArrowDown"
KeyArrowDown ==
    /\ isOpen /\ Len(results) > 0
    /\ selectedIndex' = IF selectedIndex < Len(results) - 1 THEN selectedIndex + 1 ELSE 0
    /\ UNCHANGED <<results, isOpen>>
    /\ UNCHANGED <<preprocessedParcels, nemOnly, ownersOnly, visibleDivisions, sizeRange, parcelsWithIds>>
    /\ UNCHANGED memoVars
    /\ UNCHANGED dataVars
    /\ UNCHANGED lastOp
    /\ UNCHANGED selVars
    /\ UNCHANGED projVars

\* handleKeyDown, case "ArrowUp"
KeyArrowUp ==
    /\ isOpen /\ Len(results) > 0
    /\ selectedIndex' = IF selectedIndex > 0 THEN selectedIndex - 1 ELSE Len(results) - 1
    /\ UNCHANGED <<results, isOpen>>
    /\ UNCHANGED <<preprocessedParcels, nemOnly, ownersOnly, visibleDivisions, sizeRange, parcelsWithIds>>
    /\ UNCHANGED memoVars
    /\ UNCHANGED dataVars
    /\ UNCHANGED lastOp
    /\ UNCHANGED selVars
    /\ UNCHANGED projVars

\* handleKeyDown, case "Enter": handleResultClick(results[selectedIndex]) and
\* the handleSearchResult of MapView it calls through onResultSelect
KeyEnter ==
    /\ isOpen /\ Len(results) > 0
    /\ IF selectedIndex >= 0 /\ selectedIndex < Len(results)
       THEN LET result == results[selectedIndex + 1]
            IN /\ isOpen' = FALSE
               /\ selectedParcels' =
                    IF result.type = "parcel"
                    THEN <<SelectedParcel(result.data, 1)>>
                    ELSE selectedParcels
               /\ visibleDivisions' =
                    IF result.type = "division"
                    THEN [visibleDivisions EXCEPT ![ScanOrder[result.data]] = TRUE]
                    ELSE visibleDivisions
               /\ lastOp' =
                    IF result.type = "parcel"
                    THEN Op("search", result.data, FALSE, Len(selectedParcels))
                    ELSE lastOp
       ELSE UNCHANGED <<isOpen, selectedParcels, visibleDivisions, lastOp>>
    /\ parcelsWithIds' = ApplyFilters(preprocessedParcels, nemOnly, ownersOnly, sizeRange, visibleDivisions')
    /\ UNCHANGED <<results, selectedIndex>>
    /\ UNCHANGED <<preprocessedParcels, nemOnly, ownersOnly, sizeRange>>
    /\ UNCHANGED <<activeProjectId, activeProjectName>>
    /\ UNCHANGED memoVars
    /\ UNCHANGED dataVars
    /\ UNCHANGED projVars

\* handleKeyDown, case "Escape", and the mousedown outside the container
CloseDropdown ==
    /\ isOpen
    /\ isOpen' = FALSE
    /\ UNCHANGED <<results, selectedIndex>>
    /\ UNCHANGED <<preprocessedParcels, nemOnly, ownersOnly, visibleDivisions, sizeRange, parcelsWithIds>>
    /\ UNCHANGED memoVars
    /\ UNCHANGED dataVars
    /\ UNCHANGED lastOp
    /\ UNCHANGED selVars
    /\ UNCHANGED projVars

\* onFocus of the input: results.length > 0 && setIsOpen(true)
FocusInput ==
    /\ ~isOpen
    /\ Len(results) > 0
    /\ isOpen' = TRUE
    /\ UNCHANGED <<results, selectedIndex>>
    /\ UNCHANGED <<preprocessedParcels, nemOnly, ownersOnly, visibleDivisions, sizeRange, parcelsWithIds>>
    /\ UNCHANGED memoVars
    /\ UNCHANGED dataVars
    /\ UNCHANGED lastOp
    /\ UNCHANGED selVars
    /\ UNCHANGED projVars

\* ------------------------------------------------------------ size slider
\* Math.round(sqmtToAcres(sqmt)) for a size that is not negative
RoundedAcres(sqmt) ==
    IF 2 * (sqmt % SQMT_PER_ACRE) >= SQMT_PER_ACRE
    THEN (sqmt \div SQMT_PER_ACRE) + 1
    ELSE sqmt \div SQMT_PER_ACRE

\* acresToSqmt
AcresToSqmt(acres) == acres * SQMT_PER_ACRE

\* handleMinAcresChange of the slider, the min text box (applyMinInput) included
HandleMinAcresChange(newMinAcres) ==
    /\ LET maxAcres == RoundedAcres(sizeRange.max)
           upTo == IF newMinAcres <= maxAcres THEN newMinAcres ELSE maxAcres
           clamped == IF upTo >= 0 THEN upTo ELSE 0
       IN sizeRange' = [min |-> AcresToSqmt(clamped), max |-> sizeRange.max]
    /\ parcelsWithIds' = ApplyFilters(preprocessedParcels, nemOnly, ownersOnly, sizeRange', visibleDivisions)
    /\ UNCHANGED <<preprocessedParcels, nemOnly, ownersOnly, visibleDivisions>>
    /\ UNCHANGED memoVars
    /\ UNCHANGED dataVars
    /\ UNCHANGED searchVars
    /\ UNCHANGED lastOp
    /\ UNCHANGED selVars
    /\ UNCHANGED projVars

\* handleMaxAcresChange of the slider, the max text box (applyMaxInput) included
HandleMaxAcresChange(newMaxAcres) ==
    /\ LET minAcres == RoundedAcres(sizeRange.min)
           boundsMaxAcres == RoundedAcres(SizeBounds(parcelsData).max)
           atLeast == IF newMaxAcres >= minAcres THEN newMaxAcres ELSE minAcres
           clamped == IF atLeast <= boundsMaxAcres THEN atLeast ELSE boundsMaxAcres
       IN sizeRange' = [min |-> sizeRange.min, max |-> AcresToSqmt(clamped)]
    /\ parcelsWithIds' = ApplyFilters(preprocessedParcels, nemOnly, ownersOnly, sizeRange', visibleDivisions)
    /\ UNCHANGED <<preprocessedParcels, nemOnly, ownersOnly, visibleDivisions>>
    /\ UNCHANGED memoVars
    /\ UNCHANGED dataVars
    /\ UNCHANGED searchVars
    /\ UNCHANGED lastOp
    /\ UNCHANGED selVars
    /\ UNCHANGED projVars

\* the "Reset to full range" button, rendered when a rounded end of the
\* range is off its bound
ResetSizeRange ==
    /\ \/ RoundedAcres(sizeRange.min) # 0
       \/ RoundedAcres(sizeRange.max) # RoundedAcres(SizeBounds(parcelsData).max)
    /\ sizeRange' = SizeBounds(parcelsData)
    /\ parcelsWithIds' = ApplyFilters(preprocessedParcels, nemOnly, ownersOnly, sizeRange', visibleDivisions)
    /\ UNCHANGED <<preprocessedParcels, nemOnly, ownersOnly, visibleDivisions>>
    /\ UNCHANGED memoVars
    /\ UNCHANGED dataVars
    /\ UNCHANGED searchVars
    /\ UNCHANGED lastOp
    /\ UNCHANGED selVars
    /\ UNCHANGED projVars

\* ----------------------------------------------------------- specifications
InitSelection ==
    /\ selectedParcels = <<>>
    /\ activeProjectId = NullId
    /\ activeProjectName = NullName
    /\ lastOp = Op("init", 0, FALSE, 0)

InitFilterSettings ==
    /\ nemOnly = TRUE
    /\ ownersOnly = FALSE
    /\ visibleDivisions = [d \in DivisionNames |-> TRUE]
    /\ sizeRange = [min |-> 0, max |-> Infinity]
    /\ parcelsWithIds = ApplyFilters(preprocessedParcels, nemOnly, ownersOnly, sizeRange, visibleDivisions)

\* the first render has evaluated the preprocessing memo once
InitMemo ==
    /\ inputsVersion = 0
    /\ preprocessRuns = 1

\* the data of a session whose parcel and division datasets are not modelled:
\* the preprocessed parcel set is given directly
InitData ==
    /\ parcelsData = NoData
    /\ communityData = <<>>
    /\ divisionsData = NoDivisions
    /\ passState = "done"

\* SearchBar before anything is typed
InitSearch ==
    /\ results = <<>>
    /\ selectedIndex = -1
    /\ isOpen = FALSE

\* useProjects after the load effect, the render and the persist effect that
\* follow it; the clock is past the stamps of the stored projects
InitHookReady ==
    /\ now = 1
    /\ nextId = Len(projects)
    /\ renderedProjects = projects
    /\ storage = Json(projects)
    /\ pendingOps = 0
    /\ hookOp = HookOp("init", 0, "", <<>>)
    /\ isLoaded = TRUE
    /\ hookPc = "ready"
    /\ errorLog = {}
    /\ hookSteps = 0
    /\ projectsShape = "array"

\* the application after mount: nothing selected, the stored projects loaded
Init ==
    /\ InitSelection
    /\ projects \in StoredCollections
    /\ InitHookReady
    /\ preprocessedParcels = <<>>
    /\ InitFilterSettings
    /\ InitMemo
    /\ InitData
    /\ InitSearch

\* the handlers of the map, the panels and the search bar, for the parcels
\* that can be picked
PickNext(pickable) ==
    \/ \E feature \in pickable \cup {NoFeature}, isMultiSelectKey \in BOOLEAN :
          HandleClick(feature, isMultiSelectKey)
    \/ \E dragIndex \in 0..(NumParcels - 1), dropIndex \in 0..(NumParcels - 1) :
          HandleDrop(dragIndex, dropIndex)
    \/ HandleClosePanel
    \/ HandleCloseAndClearActive
    \/ \E oid \in pickable : HandleSearchResult(oid)

\* the selection transitions as functions: remove takes any OBJECTID
SelectionNext ==
    \/ PickNext(LiveParcels)
    \/ \E objectId \in LiveParcels : HandleRemoveParcel(objectId)

\* the parcels the filters leave on the map of the application: the last
\* parcel of the dataset is not rendered, so it is never under the pointer
RenderedParcels == 1..(NumParcels - 1)

ProjectNext ==
    \/ \E name \in NameInputs : HandleSaveProject(name)
    \/ HandleUpdateProject
    \/ \E projectId \in 1..(MaxProjects + 1) : HandleLoadProject(projectId)

\* the application: onRemoveParcel is wired to the cards of MultiParcelPanel,
\* one per selected parcel
Next ==
    \/ PickNext(RenderedParcels)
    \/ \E objectId \in IdsOfCards : HandleRemoveParcel(objectId)
    \/ ProjectNext

\* the whole application: selection and saved projects
Spec == Init /\ [][Next]_vars

\* the selection state machine alone, started from the empty selection
SelInit ==
    /\ InitSelection
    /\ projects = <<>>
    /\ InitHookReady
    /\ preprocessedParcels = <<>>
    /\ InitFilterSettings
    /\ InitMemo
    /\ InitData
    /\ InitSearch

SelSpec == SelInit /\ [][SelectionNext]_vars

\* the filter stage over every preprocessed parcel set of the bounds
FilterInit ==
    /\ InitSelection
    /\ projects = <<>>
    /\ InitHookReady
    /\ preprocessedParcels \in PreprocessedSets
    /\ InitFilterSettings
    /\ InitMemo
    /\ InitData
    /\ InitSearch

FilterNext ==
    \/ ToggleNemOnly
    \/ ToggleOwnersOnly
    \/ \E division \in DivisionNames : ToggleDivision(division)
    \/ \E min \in SizeMins : SetSizeRangeMin(min)
    \/ \E max \in SizeMaxes : SetSizeRangeMax(max)

FilterSpec == FilterInit /\ [][FilterNext]_vars

\* the split memos of MapView: the data inputs change, the filter settings change
MemoInit ==
    /\ InitSelection
    /\ projects = <<>>
    /\ InitHookReady
    /\ preprocessedParcels \in MemoSets
    /\ InitFilterSettings
    /\ InitMemo
    /\ InitData
    /\ InitSearch

MemoNext ==
    \/ FilterNext
    \/ \E annotated \in MemoSets : InputsChanged(annotated)

MemoSpec == MemoInit /\ [][MemoNext]_vars

\* the combined memo of MapView
CombinedMemoInit ==
    /\ InitSelection
    /\ projects = <<>>
    /\ InitHookReady
    /\ preprocessedParcels \in MemoSets
    /\ nemOnly = TRUE
    /\ ownersOnly = FALSE
    /\ visibleDivisions = [d \in DivisionNames |-> TRUE]
    /\ sizeRange = [min |-> 0, max |-> Infinity]
    /\ parcelsWithIds = ApplyFiltersCombined(preprocessedParcels, nemOnly, ownersOnly, visibleDivisions)
    /\ InitMemo
    /\ InitData
    /\ InitSearch

CombinedMemoNext ==
    \/ CombinedToggleNemOnly
    \/ CombinedToggleOwnersOnly
    \/ \E division \in DivisionNames : CombinedToggleDivision(division)
    \/ \E flagged \in MemoSets : CombinedInputsChanged(flagged)

CombinedMemoSpec == CombinedMemoInit /\ [][CombinedMemoNext]_vars

\* useProjects from the ready state, over the collections an earlier session
\* may have stored; every write of the persist effect succeeds
HookInit ==
    /\ InitSelection
    /\ projects \in HookCollections
    /\ InitHookReady
    /\ preprocessedParcels = <<>>
    /\ InitFilterSettings
    /\ InitMemo
    /\ InitData
    /\ InitSearch

HookNext ==
    \/ \E name \in NameInputs, parcelIds \in IdLists : SaveProject(name, parcelIds)
    \/ \E id \in 1..(nextId + 1), parcelIds \in IdLists : UpdateProject(id, parcelIds)
    \/ \E id \in 1..(nextId + 1), newName \in NameInputs : RenameProject(id, newName)
    \/ \E id \in 1..(nextId + 1) : DeleteProject(id)
    \/ Tick
    \/ Render(TRUE)

HookSpec == HookInit /\ [][HookNext]_vars

\* the values localStorage may hold when a session starts
StoredValues == {NoItem, Corrupt} \cup {Json(c) : c \in HookCollections}

\* useProjects from the first render: load effect, renders, persist effect
\* with reads and writes that may throw, and the four mutations
MountWith(values) ==
    /\ InitSelection
    /\ projects = <<>>
    /\ projectsShape = "array"
    /\ now = 1
    /\ nextId = 0
    /\ renderedProjects = <<>>
    /\ storage \in values
    /\ pendingOps = 0
    /\ hookOp = HookOp("init", 0, "", <<>>)
    /\ isLoaded = FALSE
    /\ hookPc = "mount"
    /\ errorLog = {}
    /\ hookSteps = 0
    /\ preprocessedParcels = <<>>
    /\ InitFilterSettings
    /\ InitMemo
    /\ InitData
    /\ InitSearch

MountInit == MountWith(StoredValues)

PersistNext ==
    \/ \E readOk \in BOOLEAN, writeOk \in BOOLEAN : LoadEffect(readOk, writeOk)
    \/ \E writeOk \in BOOLEAN : Render(writeOk)
    \/ SaveProject("", <<1, 2>>)
    \/ \E id \in 1..2 : UpdateProject(id, <<2, 1, 3>>)
    \/ \E id \in 1..2 : RenameProject(id, " B ")
    \/ \E id \in 1..2 : DeleteProject(id)

PersistSpec == MountInit /\ [][PersistNext]_vars

\* valid JSON that is not an array: an object or number, and null
JsonObject == [tag |-> "object", val |-> <<>>]
JsonNull == [tag |-> "jsonNull", val |-> <<>>]

\* useProjects from the first render over every kind of stored value
ShapeInit == MountWith(StoredValues \cup {JsonObject, JsonNull})

ShapeSpec == ShapeInit /\ [][PersistNext]_vars

\* the community files of the model: names in mixed case, names that hold
\* keywords of two divisions, names without keyword, a missing name,
\* overlapping polygons and polygons the containment test throws on
CommunityDatasets ==
    LET SPALDINGPIKE == <<"S", "p", "a", "l", "d", "i", "n", "g", " ", "P", "i", "k", "e">>
        DEVONPIKE == <<"D", "e", "v", "o", "n", " ", "P", "i", "k", "e">>
        KENDAL == <<"k", "e", "n", "d", "a", "l">>
        MILE == <<"M", "i", "l", "e">>
    IN
    {<<>>,
     <<Community(SPALDINGPIKE, {1}, FALSE), Community(MILE, {2}, FALSE),
       Community(KENDAL, {3}, FALSE)>>,
     <<Community(MILE, {1, 2}, FALSE), Community(MILE, {2}, FALSE),
       Community(MILE, {3}, FALSE), Community(MILE, {1}, FALSE)>>,
     <<Community(DEVONPIKE, {1}, TRUE), Community(KENDAL, {1, 3}, FALSE),
       Community(<<>>, {2}, TRUE)>>}

\* the parcel datasets of the model; the last parcel of the third one has a
\* geometry centroid throws on
ParcelDatasets ==
    {<<>>,
     <<Parcel(1, Num(1), 1, "ok", 1), Parcel(2, Num(2), 2, "ok", 3)>>,
     <<Parcel(1, Undefined, 0, "ok", 2), Parcel(2, Num(1), 1, "ok", 1),
       Parcel(3, Num(2), 1, "malformed", 1)>>,
     <<Parcel(1, Num(2), 1, "ok", 2), Parcel(2, Num(2), 0, "ok", 1)>>}

\* MapView after its first render and effects: no dataset has arrived, the
\* size range has been set to the bounds of the empty dataset
DataInit ==
    /\ InitSelection
    /\ projects = <<>>
    /\ InitHookReady
    /\ preprocessedParcels = <<>>
    /\ nemOnly = TRUE
    /\ ownersOnly = FALSE
    /\ visibleDivisions = [d \in DivisionNames |-> TRUE]
    /\ sizeRange = SizeBounds(NoData)
    /\ parcelsWithIds = <<>>
    /\ inputsVersion = 0
    /\ preprocessRuns = 0
    /\ parcelsData = NoData
    /\ communityData = <<>>
    /\ divisionsData = NoDivisions
    /\ passState = "null"
    /\ InitSearch

\* the two loads in either order, and the filter toggles of a live MapView
DataNext ==
    \/ \E features \in ParcelDatasets : ParcelsLoaded(features)
    \/ \E communities \in CommunityDatasets : DivisionsLoaded(communities)
    \/ DivisionsLoadFails
    \/ passState # "aborted" /\ ToggleNemOnly
    \/ passState # "aborted" /\ ToggleOwnersOnly
    \/ \E division \in DivisionNames : passState # "aborted" /\ ToggleDivision(division)

DataSpec == DataInit /\ [][DataNext]_vars

\* the project binding of MapView: clicks, the two clears, and the save,
\* update, load, rename and delete of the project panels
BindNext ==
    \/ \E feature \in RenderedParcels \cup {NoFeature}, isMultiSelectKey \in BOOLEAN :
          HandleClick(feature, isMultiSelectKey)
    \/ HandleClosePanel
    \/ HandleCloseAndClearActive
    \/ ProjectNext
    \/ \E id \in 1..(nextId + 1), editName \in EditNames : HandleSaveRename(id, editName)
    \/ \E id \in 1..(nextId + 1) : HandleDeleteProject(id)

BindSpec == Init /\ [][BindNext]_vars

\* the search bar over the map: queries, the keys of the dropdown, and the
\* division toggles of the layer panel
SearchNext ==
    \/ \E debouncedQuery \in SearchQueries : SearchEffect(debouncedQuery)
    \/ KeyArrowDown
    \/ KeyArrowUp
    \/ KeyEnter
    \/ CloseDropdown
    \/ FocusInput
    \/ \E division \in DivisionNames : ToggleDivision(division)

SearchSpec == SelInit /\ [][SearchNext]_vars

\* parcel datasets for the size slider, sizes in hundredths of a square
\* meter: 1,000 and 6,100 square meters; one and two acres; no valid size
SizeDatasets ==
    {<<Parcel(1, Num(100000), 1, "ok", 1), Parcel(2, Num(610000), 1, "ok", 2)>>,
     <<Parcel(1, Num(SQMT_PER_ACRE), 1, "ok", 1), Parcel(2, Num(2 * SQMT_PER_ACRE), 0, "ok", 3)>>,
     <<Parcel(1, Undefined, 1, "ok", 1), Parcel(2, Num(0), 1, "ok", 2)>>}

\* the acres a slider thumb is moved to or a text box is given
AcreInputs == 0..MaxAcreInput

\* MapView with both datasets loaded and the size range initialised from
\* the bounds of the parcels
SizeInit ==
    /\ InitSelection
    /\ projects = <<>>
    /\ InitHookReady
    /\ InitSearch
    /\ parcelsData \in {[loaded |-> TRUE, features |-> features] : features \in SizeDatasets}
    /\ communityData = <<>>
    /\ divisionsData = [loaded |-> TRUE, groups |-> GroupByDivision(<<>>)]
    /\ passState = "done"
    /\ preprocessedParcels = Preprocess(parcelsData, divisionsData).parcels
    /\ nemOnly = TRUE
    /\ ownersOnly = FALSE
    /\ visibleDivisions = [d \in DivisionNames |-> TRUE]
    /\ sizeRange = InitialSizeRange(SizeBounds(parcelsData), SizeBounds(NoData))
    /\ parcelsWithIds = ApplyFilters(preprocessedParcels, nemOnly, ownersOnly, sizeRange, visibleDivisions)
    /\ inputsVersion = 0
    /\ preprocessRuns = 1

SizeNext ==
    \/ \E newMinAcres \in AcreInputs : HandleMinAcresChange(newMinAcres)
    \/ \E newMaxAcres \in AcreInputs : HandleMaxAcresChange(newMaxAcres)
    \/ ResetSizeRange
    \/ ToggleNemOnly
    \/ ToggleOwnersOnly

SizeSpec == SizeInit /\ [][SizeNext]_vars

\* ------------------------------------------------------------------ claims
Ids(sel) == [i \in 1..Len(sel) |-> sel[i].OBJECTID]
IdSet(sel) == {sel[i].OBJECTID : i \in 1..Len(sel)}
WithoutId(ids, oid) == SelectSeq(ids, LAMBDA x : x # oid)
DenseOrder(sel) == \A i \in 1..Len(sel) : sel[i].selectionOrder = i

\* C1: from the empty selection, after any sequence of clicks, removes and
\* drag-reorders, the entry at list position i carries selectionOrder i, so
\* the orders are exactly 1..N without gap or duplicate.
C1_SelectionOrderDense == DenseOrder(selectedParcels)

C1_Witness ==
    /\ lastOp.op = "drop"
    /\ lastOp.id # lastOp.arg
    /\ Len(selectedParcels) >= 3

\* C2: no two entries of the selection list carry the same OBJECTID, whatever
\* selection operations (project load included) ran.
C2_UniqueParcelIds ==
    \A i, j \in 1..Len(selectedParcels) :
        i # j => selectedParcels[i].OBJECTID # selectedParcels[j].OBJECTID

C2_Witness ==
    /\ lastOp.op = "load"
    /\ Len(selectedParcels) >= 2

\* C3: a multi-select click on a selected parcel removes exactly that entry
\* and renumbers the rest densely in their previous relative order; on an
\* unselected parcel it appends it with order = previous length + 1 and leaves
\* the existing entries as they were; a second multi-select click right after
\* one that removed the parcel puts it back as the last entry, with order N.
C3_MultiClickToggle ==
    [][(lastOp'.op = "click" /\ lastOp'.multi /\ lastOp'.id # NoFeature) =>
        LET oid == lastOp'.id
            prev == selectedParcels
            next == selectedParcels'
        IN /\ IF oid \in IdSet(prev)
              THEN /\ Len(next) = Len(prev) - 1
                   /\ Ids(next) = WithoutId(Ids(prev), oid)
                   /\ DenseOrder(next)
              ELSE /\ Len(next) = Len(prev) + 1
                   /\ SubSeq(next, 1, Len(prev)) = prev
                   /\ next[Len(next)] = SelectedParcel(oid, Len(prev) + 1)
           /\ (/\ lastOp.op = "click" /\ lastOp.multi /\ lastOp.id = oid
               /\ lastOp.arg = Len(prev) + 1)
              => /\ Len(next) = lastOp.arg
                 /\ next[Len(next)] = SelectedParcel(oid, lastOp.arg)
    ]_vars

C3_Witness ==
    /\ lastOp.op = "click" /\ lastOp.multi /\ lastOp.id # NoFeature
    /\ lastOp.arg = 3
    /\ Len(selectedParcels) = 2
    /\ DenseOrder(selectedParcels)

\* C4: a click without the modifier clears the selection when its only entry
\* is the clicked parcel, and in every other case replaces the whole list by
\* the single entry {clicked parcel, order 1}.
C4_SingleClick ==
    [][(lastOp'.op = "click" /\ ~lastOp'.multi /\ lastOp'.id # NoFeature) =>
        LET oid == lastOp'.id
            prev == selectedParcels
        IN IF Len(prev) = 1 /\ prev[1].OBJECTID = oid
           THEN selectedParcels' = <<>>
           ELSE selectedParcels' = <<[OBJECTID |-> oid, selectionOrder |-> 1]>>
    ]_vars

C4_Witness ==
    /\ lastOp.op = "click" /\ ~lastOp.multi /\ lastOp.id # NoFeature
    /\ lastOp.arg = 1
    /\ selectedParcels = <<>>

\* C5: remove(parcelId) deletes exactly the entry with that OBJECTID, keeps the
\* order of the others and renumbers them 1..N-1, giving the list a
\* multi-select click on that parcel gives; removing an unselected id leaves
\* the list as it was.
C5_Remove ==
    [][lastOp'.op = "remove" =>
        LET oid == lastOp'.id
            prev == selectedParcels
            next == selectedParcels'
        IN IF oid \in IdSet(prev)
           THEN /\ Len(next) = Len(prev) - 1
                /\ Ids(next) = WithoutId(Ids(prev), oid)
                /\ DenseOrder(next)
                /\ next = MultiSelect(prev, oid)
           ELSE next = prev
    ]_vars

C5_Witness ==
    /\ lastOp.op = "remove"
    /\ lastOp.arg = Len(selectedParcels) + 1
    /\ Len(selectedParcels) >= 2

\* C6: after dragging the entry at index i onto another index j the selection
\* is a permutation of the previous one, the dragged entry is at position j,
\* the others keep their relative order, and every entry's order is its
\* position + 1.
C6_Reorder ==
    [][(lastOp'.op = "drop" /\ lastOp'.id # lastOp'.arg) =>
        LET i == lastOp'.id
            j == lastOp'.arg
            prev == selectedParcels
            next == selectedParcels'
            dragged == prev[i + 1].OBJECTID
        IN /\ Len(next) = Len(prev)
           /\ IdSet(next) = IdSet(prev)
           /\ next[j + 1].OBJECTID = dragged
           /\ WithoutId(Ids(next), dragged) = WithoutId(Ids(prev), dragged)
           /\ DenseOrder(next)
    ]_vars

C6_Witness ==
    /\ lastOp.op = "drop"
    /\ lastOp.id = 0 /\ lastOp.arg = 2
    /\ Len(selectedParcels) = 3

C8_EmptyClickClears ==
    (lastOp.op = "click" /\ lastOp.id = NoFeature) => selectedParcels = <<>>

C8_Witness ==
    /\ lastOp.op = "click" /\ lastOp.id = NoFeature
    /\ lastOp.multi
    /\ lastOp.arg >= 2
    /\ selectedParcels = <<>>

VisibleSet == {d \in DivisionNames : visibleDivisions[d]}
Displayed(p) == \E i \in 1..Len(parcelsWithIds) : parcelsWithIds[i] = p
\* an area the size filter measures against the range: a number other than 0
HasValidArea(p) == p.SIZE_SQMT.tag = "num" /\ p.SIZE_SQMT.val # 0
InRange(p) == sizeRange.min <= p.SIZE_SQMT.val /\ p.SIZE_SQMT.val <= sizeRange.max
OthersPass(p) ==
    /\ ~nemOnly \/ p._isInNem
    /\ ~ownersOnly \/ p._hasOwner
    /\ p._division = NoDivision \/ p._division \in VisibleSet
PassesAll(p) ==
    /\ ~nemOnly \/ p._isInNem
    /\ ~ownersOnly \/ p._hasOwner
    /\ ~HasValidArea(p) \/ InRange(p)
    /\ p._division = NoDivision \/ p._division \in VisibleSet

\* C9: the displayed subset is exactly the parcels, in input order, that
\* satisfy all four of: boundaryOnly off or in boundary, ownersOnly off or has
\* owner, no valid area or area within [min, max], no division or division
\* visible.
C9_DisplayedIsConjunction ==
    parcelsWithIds = SelectSeq(preprocessedParcels, PassesAll)

C9_Witness ==
    /\ nemOnly /\ ownersOnly
    /\ sizeRange.min > 0
    /\ VisibleSet # DivisionNames
    /\ Len(preprocessedParcels) >= 2
    /\ Len(parcelsWithIds) = 1
    /\ parcelsWithIds[1] = preprocessedParcels[2]

\* C10 as stated: only a missing or NaN area passes for every range, and
\* every numeric area, 0 included, passes iff min <= area <= max.
C10_Original ==
    \A i \in 1..Len(preprocessedParcels) :
        LET p == preprocessedParcels[i]
        IN OthersPass(p) =>
             IF p.SIZE_SQMT.tag # "num"
             THEN Displayed(p)
             ELSE Displayed(p) <=> InRange(p)

\* C10, amended: a parcel whose area is missing, NaN or 0 passes the size
\* filter for every sizeRange; a parcel with any other numeric area passes
\* iff min <= area <= max, both bounds inclusive.
C10_SizeFailOpen ==
    \A i \in 1..Len(preprocessedParcels) :
        LET p == preprocessedParcels[i]
        IN OthersPass(p) =>
             IF p.SIZE_SQMT.tag # "num" \/ p.SIZE_SQMT.val = 0
             THEN Displayed(p)
             ELSE Displayed(p) <=> InRange(p)

C10_Witness ==
    \E i \in 1..Len(preprocessedParcels) :
        /\ preprocessedParcels[i].SIZE_SQMT = Num(0)
        /\ sizeRange.min > 0
        /\ sizeRange.max < Infinity
        /\ Displayed(preprocessedParcels[i])

FilterSettings == <<nemOnly, ownersOnly, sizeRange, visibleDivisions>>

\* C11: a step that changes a filter setting (boundaryOnly, ownersOnly,
\* sizeRange, visibleDivisions) does not run the preprocessing pass and leaves
\* the annotated parcel set as it was; the pass runs only in a step in which a
\* data input (parcel set, division dataset, owner lookup) changes.
C11_FilterChangeKeepsPreprocessing ==
    [][/\ FilterSettings' # FilterSettings =>
            /\ preprocessRuns' = preprocessRuns
            /\ preprocessedParcels' = preprocessedParcels
       /\ preprocessRuns' # preprocessRuns => inputsVersion' # inputsVersion
    ]_vars

CountOf(pre, Test(_)) == Cardinality({i \in 1..Len(pre) : Test(pre[i])})
IsInBoundary(p) == p._isInNem
HasOwner(p) == p._hasOwner
CountsNow == ParcelCounts(preprocessedParcels, parcelsWithIds)

\* C12: in every filter configuration total is the number of annotated
\* parcels, inBoundary the number of parcels in the boundary, withOwners the
\* number of parcels with an owner, displayed the number of parcels that pass
\* the filters, and displayed <= total; no step that keeps the annotated set
\* changes total, inBoundary or withOwners.
C12_AggregateCounts ==
    /\ [](/\ CountsNow.total = Len(preprocessedParcels)
          /\ CountsNow.nem = CountOf(preprocessedParcels, IsInBoundary)
          /\ CountsNow.withOwners = CountOf(preprocessedParcels, HasOwner)
          /\ CountsNow.displayed = CountOf(preprocessedParcels, PassesAll)
          /\ CountsNow.displayed <= CountsNow.total)
    /\ [][/\ CountsNow'.total = CountsNow.total
          /\ CountsNow'.nem = CountsNow.nem
          /\ CountsNow'.withOwners = CountsNow.withOwners]_vars

C12_Witness ==
    /\ Len(preprocessedParcels) = 2
    /\ CountsNow.nem = 1
    /\ CountsNow.withOwners = 2
    /\ CountsNow.displayed = 1
    /\ ~nemOnly /\ sizeRange.min > 0

\* a render has followed the last useProjects operation
Rendered == hookPc = "ready" /\ pendingOps = 0
ProjectIds(collection) == {collection[i].id : i \in 1..Len(collection)}
IsMutation(op) == op \in {"save", "update", "rename", "delete"}

C14_UpdateGetRoundTrip ==
    [][(/\ hookOp.op = "update"
        /\ pendingOps = 1 /\ pendingOps' = 0
        /\ GetProject(hookOp.id) # <<>>) =>
        LET old == GetProject(hookOp.id)[1]
            new == FindProject(renderedProjects', hookOp.id)[1]
        IN /\ new.parcelIds = hookOp.parcelIds
           /\ new.updatedAt > old.updatedAt
           /\ new.id = old.id
           /\ new.name = old.name
           /\ new.createdAt = old.createdAt
    ]_vars

\* C15 as stated: once the load has completed, between operations the stored
\* collection equals the in-memory collection.
C15_Original ==
    Rendered => storage = Json(projects)

\* C15, amended: once the load has completed, every render that follows a
\* save, update, rename or delete attempts a write of the full collection:
\* the stored collection then equals the in-memory one, or setItem threw, the
\* failure is logged and the stored value is what it was; while no write has
\* failed, the stored collection equals the in-memory one between operations.
C15_WriteThrough ==
    /\ []((Rendered /\ SaveFailed \notin errorLog) => storage = Json(projects))
    /\ [][(pendingOps > 0 /\ pendingOps' = 0) =>
            \/ storage' = Json(projects')
            \/ storage' = storage /\ SaveFailed \in errorLog'
       ]_vars

C15_Witness ==
    /\ hookOp.op = "delete" /\ Rendered
    /\ SaveFailed \in errorLog
    /\ storage.tag = "json"
    /\ Len(storage.val) = 2
    /\ Len(projects) = 1

\* C16: when a session starts with a valid stored collection C that the load
\* effect reads, storage holds C until the first user mutation (the empty
\* in-memory state of the first render is never written over it), and once
\* the load has run the in-memory collection is C.
C16_StoredCollectionSurvivesMount ==
    /\ []((/\ hookSteps = 0 /\ isLoaded
           /\ storage.tag = "json" /\ LoadFailed \notin errorLog) => projects = storage.val)
    /\ [][(hookSteps' = 0 /\ storage.tag = "json" /\ LoadFailed \notin errorLog') =>
            storage' = storage]_vars

C16_Witness ==
    /\ hookSteps = 0 /\ Rendered
    /\ LoadFailed \notin errorLog
    /\ storage = Json(<<StaleProject, SecondProject>>)
    /\ projects = <<StaleProject, SecondProject>>

\* C17: when reading or parsing the stored value fails in the load effect,
\* the in-memory collection is the empty list, the error is logged and
\* isLoaded becomes true.
C17_LoadFailureFallsBack ==
    [][(hookPc = "mount" /\ hookPc' # "mount"
        /\ (hookOp'.name = "threw" \/ storage.tag = "corrupt")) =>
        /\ projects' = <<>>
        /\ LoadFailed \in errorLog'
        /\ isLoaded'
    ]_vars

C17_Witness ==
    /\ Rendered
    /\ hookSteps = 0
    /\ LoadFailed \in errorLog
    /\ isLoaded
    /\ projects = <<>>
    /\ storage = Json(<<>>)

UnknownIdNoOp ==
    (/\ hookOp'.op \in {"update", "rename", "delete"}
     /\ pendingOps' = pendingOps + 1
     /\ hookOp'.id \notin ProjectIds(projects)) => projects' = projects

DeleteRemovesOne ==
    (/\ hookOp'.op = "delete"
     /\ pendingOps' = pendingOps + 1
     /\ hookOp'.id \in ProjectIds(projects)) =>
        /\ Len(projects') = Len(projects) - 1
        /\ projects' = SelectSeq(projects, LAMBDA proj : proj.id # hookOp'.id)

\* the step repeats the operation called last, with the same arguments
RepeatsLastOp ==
    /\ hookOp'.op \in {"update", "rename", "delete"}
    /\ pendingOps' = pendingOps + 1
    /\ hookOp' = hookOp

WithoutStamp(collection) ==
    [i \in 1..Len(collection) |->
        [id |-> collection[i].id, name |-> collection[i].name,
         parcelIds |-> collection[i].parcelIds, createdAt |-> collection[i].createdAt]]

\* C18 as stated: update, rename and delete with an unknown id leave the
\* collection unchanged, a repeated call of any of the three leaves the
\* collection as the first call left it, and delete on a known id removes
\* exactly that record.
C18_Original ==
    [][/\ UnknownIdNoOp
       /\ RepeatsLastOp => projects' = projects
       /\ DeleteRemovesOne
    ]_vars

\* C18, amended: update, rename and delete with an unknown id leave the
\* collection unchanged; a repeated delete changes nothing, and a repeated
\* update or rename leaves every field but updatedAt, which each call stamps
\* again, as the first call left it; delete on a known id removes exactly
\* that record and leaves the others unchanged.
C18_UnknownIdNoOp ==
    [][/\ UnknownIdNoOp
       /\ RepeatsLastOp =>
            /\ WithoutStamp(projects') = WithoutStamp(projects)
            /\ hookOp'.op = "delete" => projects' = projects
       /\ DeleteRemovesOne
    ]_vars

C18_Witness ==
    /\ hookOp.op = "delete"
    /\ hookOp.id = 2
    /\ projects = <<StaleProject>>
    /\ renderedProjects = <<StaleProject, SecondProject>>

RenameTarget == FindProject(projects, hookOp'.id)
OthersUnchanged ==
    /\ Len(projects') = Len(projects)
    /\ \A i \in 1..Len(projects) : projects[i].id # hookOp'.id => projects'[i] = projects[i]
RenamedAs(name) ==
    \A i \in 1..Len(projects) : projects[i].id = hookOp'.id =>
        projects'[i] = [projects[i] EXCEPT !.name = name, !.updatedAt = now]
IsRenameOfExisting ==
    /\ hookOp'.op = "rename"
    /\ pendingOps' = pendingOps + 1
    /\ hookOp'.id \in ProjectIds(projects)

\* C19 as stated: rename on an existing record stores the trimmed name and
\* the current time as updatedAt and changes nothing else; a blank name
\* leaves the collection as it was.
C19_Original ==
    [][IsRenameOfExisting =>
        IF Trim(hookOp'.name) = ""
        THEN projects' = projects
        ELSE OthersUnchanged /\ RenamedAs(Trim(hookOp'.name))
    ]_vars

\* C19, amended: rename on an existing record stores the trimmed name and the
\* current time as updatedAt and changes nothing else; with a blank name the
\* record keeps its name but updatedAt is still set to the current time.
C19_Rename ==
    [][IsRenameOfExisting =>
        /\ OthersUnchanged
        /\ IF Trim(hookOp'.name) = ""
           THEN RenamedAs(RenameTarget[1].name)
           ELSE RenamedAs(Trim(hookOp'.name))
    ]_vars

C19_Witness ==
    /\ hookOp.op = "rename"
    /\ hookOp.id = 2
    /\ Len(projects) = 2
    /\ projects[2].name = "B"
    /\ projects[2].updatedAt > projects[2].createdAt
    /\ projects[1] = StaleProject

\* "Selection {n}"
SelectionName(n) ==
    CASE n = 1 -> "Selection 1"
      [] n = 2 -> "Selection 2"
      [] n = 3 -> "Selection 3"
      [] n = 4 -> "Selection 4"
      [] OTHER -> "Selection N"

\* C20: save appends one record whose id differs from every existing id and
\* whose createdAt equals its updatedAt; with a blank name the record is
\* named "Selection {count+1}", count being the number of saved records at
\* the save, also for the second of two saves issued back to back.
C20_SaveAppendsNamedRecord ==
    [][(hookOp'.op = "save" /\ pendingOps' = pendingOps + 1) =>
        LET new == projects'[Len(projects')]
        IN /\ projects' = Append(projects, new)
           /\ new.id \notin ProjectIds(projects)
           /\ new.createdAt = new.updatedAt
           /\ Trim(hookOp'.name) = "" => new.name = SelectionName(Len(projects) + 1)
    ]_vars

\* the count part of C20 alone, in the wording of saveProject: with a blank
\* name the record is named "Project {count+1}"
C20_DefaultNameCountsRecords ==
    [][(hookOp'.op = "save" /\ pendingOps' = pendingOps + 1 /\ Trim(hookOp'.name) = "") =>
        projects'[Len(projects')].name = DefaultName(Len(projects) + 1)
    ]_vars

\* saved-project round trip through the selection
AllLive(parcelIds) == \A i \in 1..Len(parcelIds) : parcelIds[i] \in LiveParcels
LoadedProject == GetProject(lastOp'.id)
IsLoadOfProject == lastOp'.op = "load" /\ LoadedProject # <<>>

C22_LoadOrderDense ==
    [][IsLoadOfProject =>
        /\ DenseOrder(selectedParcels')
        /\ Ids(selectedParcels') =
             SelectSeq(LoadedProject[1].parcelIds, LAMBDA oid : oid \in LiveParcels)]_vars

\* preprocessing over the loaded datasets
BothLoaded == parcelsData.loaded /\ divisionsData.loaded
Contains(division, point) ==
    \E k \in 1..Len(divisionsData.groups[division]) :
        /\ ~divisionsData.groups[division][k].throws
        /\ point \in divisionsData.groups[division][k].cells
ScanPosition(division) == CHOOSE n \in 1..3 : ScanOrder[n] = division

\* C23: a geometry error on one polygon (centroid, boundary test, community
\* test) never aborts the preprocessing pass: once both datasets are there,
\* every parcel has its annotated feature, and a parcel whose geometry raised
\* the error is treated as inside neither the boundary nor a division.
C23_GeometryErrorsStayLocal ==
    BothLoaded =>
        /\ passState = "done"
        /\ Len(preprocessedParcels) = Len(parcelsData.features)
        /\ \A i \in 1..Len(preprocessedParcels) :
              /\ preprocessedParcels[i].OBJECTID = parcelsData.features[i].OBJECTID
              /\ parcelsData.features[i].geometry # "ok" =>
                    /\ ~preprocessedParcels[i]._isInNem
                    /\ preprocessedParcels[i]._division = NoDivision

\* C24: findDivisionForPoint returns null iff no community polygon of the
\* three groups contains the point; otherwise it returns the division of the
\* first group, in scan order, that has a polygon containing the point; a
\* polygon whose test throws is skipped and counts as not containing.
C24_DivisionOfPoint ==
    /\ \A point \in Points :
          LET division == FindDivisionForPoint(divisionsData, point)
          IN /\ division = NoDivision <=> \A d \in DivisionNames : ~Contains(d, point)
             /\ division # NoDivision =>
                   /\ Contains(division, point)
                   /\ \A d \in DivisionNames :
                         ScanPosition(d) < ScanPosition(division) => ~Contains(d, point)
    /\ passState = "done" =>
          \A i \in 1..Len(preprocessedParcels) :
              preprocessedParcels[i]._division =
                  FindDivisionForPoint(divisionsData, parcelsData.features[i].at)

C24_Witness ==
    /\ passState = "done"
    /\ \E i \in 1..Len(preprocessedParcels) :
          /\ preprocessedParcels[i]._division = "WALDERSTON"
          /\ \E k \in 1..Len(divisionsData.groups["CRAIGHEAD"]) :
                /\ divisionsData.groups["CRAIGHEAD"][k].throws
                /\ parcelsData.features[i].at \in divisionsData.groups["CRAIGHEAD"][k].cells

\* the classification of the communities
KeywordsOf(division) ==
    CASE division = "CHRISTIANA" -> CHRISTIANA_KEYWORDS
      [] division = "CRAIGHEAD" -> CRAIGHEAD_KEYWORDS
      [] division = "WALDERSTON" -> WALDERSTON_KEYWORDS
PriorityOrder == <<"CHRISTIANA", "CRAIGHEAD", "WALDERSTON">>
SameLetter(a, b) == UpperOf(a) = UpperOf(b)
NameHolds(name, keyword) ==
    \E k \in 0..(Len(name) - Len(keyword)) :
        \A j \in 1..Len(keyword) : SameLetter(name[k + j], keyword[j])
Matches(name, division) ==
    \E n \in 1..Len(KeywordsOf(division)) : NameHolds(name, KeywordsOf(division)[n])
GroupsOf(index) ==
    {d \in DivisionNames :
        \E k \in 1..Len(divisionsData.groups[d]) : divisionsData.groups[d][k].index = index}
GroupedTotal ==
    Len(divisionsData.groups["CRAIGHEAD"]) + Len(divisionsData.groups["CHRISTIANA"])
        + Len(divisionsData.groups["WALDERSTON"])

\* C25: every community of the file is in exactly one division group: that
\* of the first division, in priority order, one of whose keywords is a
\* case-insensitive substring of its name, and for a name that holds no
\* keyword the division at position (index mod 3), index being the 0-based
\* position of the community in the file.
C25_CommunityClassification ==
    divisionsData.loaded =>
        /\ GroupedTotal = Len(communityData)
        /\ \A i \in 1..Len(communityData) :
              LET name == communityData[i].COMM_NAME_
                  hits == {p \in 1..3 : Matches(name, PriorityOrder[p])}
              IN GroupsOf(i - 1) =
                    {IF hits # {}
                     THEN PriorityOrder[CHOOSE p \in hits : \A q \in hits : p <= q]
                     ELSE FallbackDivisions[((i - 1) % 3) + 1]}

C25_Witness ==
    /\ divisionsData.loaded
    /\ \E i \in 1..Len(communityData) :
          /\ Matches(communityData[i].COMM_NAME_, "CHRISTIANA")
          /\ Matches(communityData[i].COMM_NAME_, "CRAIGHEAD")
          /\ communityData[i].COMM_NAME_ # ToUpperCase(communityData[i].COMM_NAME_)
    /\ Len(communityData) >= 2
    /\ \A d \in DivisionNames : ~Matches(communityData[2].COMM_NAME_, d)
    /\ GroupsOf(1) = {FallbackDivisions[2]}

\* the three annotations of STEP 1
HasAnnotations(f) == {"_isInNem", "_hasOwner", "_division"} \subseteq DOMAIN f
PassesFilters(f) ==
    /\ nemOnly => f._isInNem
    /\ ownersOnly => f._hasOwner
    /\ SizePasses(f, sizeRange)
    /\ DivisionPasses(f, visibleDivisions)

\* C29: no parcel is displayed until both the parcel dataset and the division
\* dataset are loaded; whichever load completes first, once both are there
\* every parcel of the dataset is preprocessed, the displayed set is the
\* filter of that preprocessed set, and every displayed parcel carries the
\* three annotations.
C29_DisplayWaitsForBothLoads ==
    /\ ~BothLoaded => parcelsWithIds = <<>> /\ passState = "null"
    /\ BothLoaded =>
          /\ passState = "done"
          /\ Ids(preprocessedParcels) = Ids(parcelsData.features)
          /\ parcelsWithIds = SelectSeq(preprocessedParcels, PassesFilters)
          /\ \A i \in 1..Len(parcelsWithIds) : HasAnnotations(parcelsWithIds[i])

C27_EnterActivatesHighlighted ==
    /\ selectedIndex \in -1..(Len(results) - 1)
    /\ (isOpen /\ selectedIndex >= 0) =>
          results[selectedIndex + 1] = RenderedResults(results)[selectedIndex + 1]

\* C28: after any sequence of size-slider moves, min/max text entries and
\* resets, sizeRange.min <= sizeRange.max.
C28_SizeRangeOrdered == sizeRange.min <= sizeRange.max

\* C30: for every stored value (absent, unparsable text, valid JSON of any
\* shape) the collection in memory after startup is a list of project
\* records, and no later save, update, rename or delete fails.
C30_LoadedCollectionIsList ==
    /\ isLoaded => projectsShape = "array"
    /\ hookPc # "crashed"
====
